---- MODULE Spec2Model ----
(***************************************************************************)
(* Step pipeline, GPS crossing locator and timeline merger of the march    *)
(* dashboard (src/src/processing), and the access check of src/utils.      *)
(*                                                                         *)
(* Units.  Time is in whole seconds of the day(s) of the recording.  An    *)
(* accelerometer file is a sequence of one-second blocks; a block at       *)
(* second Time holds n samples that all carry the same signal tag.         *)
(* Cadences are in thousandths of a step per second, cumulative step      *)
(* counts of the step pipeline in thousandths of a step.                   *)
(***************************************************************************)
EXTENDS Integers, Sequences, FiniteSets, TLC

VARIABLES
    \* ---- Batch Step Orchestrator (AccelerometerStepProcessor) ----
    data_dir,            \* participant id -> sequence of files, in path order
    window_size,         \* self.window_size
    march_start_time,    \* self.march_start_time (None when not configured)
    gps_crossing_times,  \* self.gps_crossing_times: participant id -> entry
    todo,                \* participants the outer loop has not reached yet
    results,             \* the list built by process_all_participants
    attempts,            \* per participant: what process_participant did with each file
    pc                   \* position of process_all_participants

stepVars == <<data_dir, window_size, march_start_time, gps_crossing_times,
              todo, results, attempts, pc>>

VARIABLES
    \* ---- GPS Crossing Locator (WatchDataProcessor) ----
    gps_df,              \* the track: points in file order
    start_coords,        \* self.start_coords (None when not given)
    end_coords,          \* self.end_coords (None when not given)
    gps_tolerance_m,     \* self.gps_tolerance_m
    crossing,            \* what find_gps_crossing_times returned
    gpc                  \* "parse" while the track is read, then "done"

gpsVars == <<gps_df, start_coords, end_coords, gps_tolerance_m, crossing, gpc>>

VARIABLES
    \* ---- Timeline Merger (MarchDataMerger and its main) ----
    watch_exists,        \* the watch data file is on disk
    step_exists,         \* the step data file is on disk
    df_watch,            \* rows of the watch CSV
    df_steps,            \* rows of the step CSV
    tolerance,           \* self.tolerance (None until defaulted)
    df_merged,           \* what merge_data returned
    mpc                  \* position of main, or the exception that ended it

mergeVars == <<watch_exists, step_exists, df_watch, df_steps, tolerance, df_merged, mpc>>

VARIABLES
    \* ---- get_steps on one group of the Grouper (Window Cadence Estimator) ----
    win_group,           \* the samples of the group, as blocks
    win_interval,        \* interval_size of get_steps
    sps_l,               \* the list get_steps appends the cadence to
    sample_l,            \* the list get_steps appends the middle index to
    fft,                 \* locals of fft_and_processing (None when it did not run)
    invoked,             \* the functions called while the group was handled
    wpc                  \* "loop" before the group is handled, then "done"

estVars == <<win_group, win_interval, sps_l, sample_l, fft, invoked, wpc>>

VARIABLES
    \* ---- get_step_count_and_distribution ----
    trace,               \* the accelerometer frame it is called with
    distribution,        \* what the call returned
    dpc                  \* "call", then "done" or the exception raised

distVars == <<trace, distribution, dpc>>

VARIABLES
    \* ---- Filter Bank (highpass_filter, lowpass_filter, bandpass_filter) ----
    filter_call,         \* the filter called and its arguments
    filter_result        \* None, then what the call did

filterVars == <<filter_call, filter_result>>

VARIABLES
    \* ---- access check (utils/auth.py, utils/database.py) ----
    db_manager,          \* the global db_manager (None until initialised)
    march_participants,  \* rows of table march_participants: <<user_id, march_id>>
    request,             \* arguments of user_can_view_march
    granted              \* None, then what the call did

authVars == <<db_manager, march_participants, request, granted>>

VARIABLES
    \* ---- login (utils/auth.py authenticate_user, update_last_login) ----
    users_table,         \* rows of table users, by username (None: no row)
    clock,               \* CURRENT_TIMESTAMP: the number of UPDATEs executed
    login_request,       \* arguments of authenticate_user
    login_result         \* None, then what the call did

loginVars == <<users_table, clock, login_request, login_result>>

VARIABLES
    \* ---- Cycle Counter (find_peaks_and_minimas_np) ----
    window,              \* the magnitude array the counter is called with
    counted,             \* None, then the locals of step_processor's counter
    exported             \* None, then what the counter of filters.py returned

cycleVars == <<window, counted, exported>>

pipeVars == <<stepVars, gpsVars, mergeVars>>
callVars == <<estVars, distVars, filterVars, authVars, loginVars, cycleVars>>

vars == <<pipeVars, callVars>>

None == <<>>

\* ------------------------------------------------------------------------
\* Program constants
\* ------------------------------------------------------------------------
SamplingRate == 52
MinWindowSeconds == 3
HighpassOrder == 2
ClockShift == 3600
DaySeconds == 86400
DefaultWindow == 8
DefaultGpsTolerance == 50
DefaultToleranceSeconds == 30
MinuteSeconds == 60
min_samples == MinWindowSeconds * SamplingRate

\* ------------------------------------------------------------------------
\* Bounds of the model
\* ------------------------------------------------------------------------
RecLen == 8          \* seconds of the recording that is split in two
MaxFiles == 2        \* files of the first participant of a batch run
FileLen == 4         \* seconds in a catalogue file of the batch runs
MaxStart == 3        \* latest second of its window at which the split recording starts
MaxTrack == 4        \* points of a GPS track
MaxStamp == 4        \* latest timestamp of a track point
MaxWatch == 2        \* rows of the watch timeline in the join runs
MaxStepRows == 2     \* rows of the step timeline in the join runs
StrideRows == 3      \* rows of the watch timeline in the stride runs
MaxWindows == 100    \* windows of a trace of get_step_count_and_distribution
MaxLogins == 2       \* UPDATEs of last_login executed
MaxCycles == 5       \* gait cycles of a window of the cycle counter
MaxOdd == 2          \* cycles of a window that differ from the strong one

\* ------------------------------------------------------------------------
\* Generic helpers
\* ------------------------------------------------------------------------
RECURSIVE SumSeq(_)
SumSeq(s) == IF s = <<>> THEN 0 ELSE Head(s) + SumSeq(Tail(s))

Max(S) == CHOOSE x \in S : \A y \in S : y <= x
Min(S) == CHOOSE x \in S : \A y \in S : x <= y

\* pandas sort_values(key) on the rows of a frame, modelled as a stable
\* insertion sort on field "time".
RECURSIVE InsertByTime(_, _)
InsertByTime(sorted, r) ==
    IF sorted = <<>> THEN <<r>>
    ELSE IF sorted[Len(sorted)].time <= r.time THEN Append(sorted, r)
    ELSE Append(InsertByTime(SubSeq(sorted, 1, Len(sorted) - 1), r),
                sorted[Len(sorted)])

RECURSIVE SortByTime(_)
SortByTime(rows) ==
    IF rows = <<>> THEN <<>>
    ELSE InsertByTime(SortByTime(SubSeq(rows, 1, Len(rows) - 1)), rows[Len(rows)])

RECURSIVE Concat(_)
Concat(frames) == IF frames = <<>> THEN <<>> ELSE Head(frames) \o Concat(Tail(frames))

\* ------------------------------------------------------------------------
\* Signal abstraction.  The samples of a block are summarised by what the
\* estimator measures of them:
\*   f    frequency of the periodic component, in thousandths of a Hz
\*   mag  contribution of one sample to the FFT magnitude of the bin at f
\*        (for a sinusoid under the Hamming window, 0.27 x its amplitude)
\*   mid  contribution of one sample to the median magnitude of bins 7..50
\*   cyc  rate of the cycles the time-domain counter sees, in thousandths
\*        of a Hz
\* The tones that can be halved have an even number of thousandths, so
\* that sps_fft / 2 is exact.
\* ------------------------------------------------------------------------
Tone(f, mag, mid, cyc) == [f |-> f, mag |-> mag, mid |-> mid, cyc |-> cyc]

\* no periodic component, 2.0 Hz walking, 5.6 Hz running
Still == Tone(0, 0, 0, 0)
Walk == Tone(2000, 108, 0, 2000)
Run == Tone(5600, 108, 0, 5600)

Signals == {Still, Walk, Run}

\* frequency of the periodic component, in thousandths of a Hz
SigFreq1000(sig) == sig.f

\* contribution of one sample to the magnitude of the bin of its frequency
SigMag(sig) == sig.mag

NumSamples(df) == SumSeq([i \in DOMAIN df |-> df[i].n])

\* a rational number num / den (a float of the program, kept exact)
Rat(n, d) == [num |-> n, den |-> d]
RatEq(a, b) == a.num * b.den = b.num * a.den

\* _perform_fft: magnitudes of the positive-frequency bins, zeroed outside
\* [1.4, 10] Hz.  mag is a function from bin frequency to magnitude over the
\* frequencies present (and the masked bin at 0), mid the median magnitude
\* of bins 7..50.
PerformFft(df) ==
    [mag |-> [f \in {SigFreq1000(df[i].sig) : i \in DOMAIN df} \cup {0} |->
                 IF f >= 1400 /\ f <= 10000
                 THEN SumSeq([i \in DOMAIN df |->
                          IF SigFreq1000(df[i].sig) = f THEN SigMag(df[i].sig) * df[i].n ELSE 0])
                 ELSE 0],
     mid |-> SumSeq([i \in DOMAIN df |-> df[i].sig.mid * df[i].n])]

\* a counter that finds every other cycle only
PeaksOf_EveryOther(cycles) == cycles \div 2

\* find_peaks_and_minimas_np on a window with that many clean cycles: the
\* pairing of minima and peaks and the two shifts each lose one cycle.
PeaksOf(cycles) == IF cycles <= 3 THEN 0 ELSE cycles - 3

\* xf_int[max_idx]: the lowest bin that holds the largest magnitude
DominantFrequency(mag, top) == Min({f \in DOMAIN mag : mag[f] = top})

\* the number of peaks the counter finds in the window
CyclePeaks(df) ==
    PeaksOf(SumSeq([i \in DOMAIN df |-> df[i].sig.cyc * df[i].n]) \div (1000 * SamplingRate))

\* _calculate_steps_amplitude_peaks_ptn (lines 422-448): the cadence in
\* thousandths of a step per second, the amplitude in hundredths (exact, as a
\* fraction) and the peak-to-noise ratio in hundredths.
Measurements(spectrum, max_mag, interval) ==
    IF max_mag > 0
    THEN [sps |-> DominantFrequency(spectrum.mag, max_mag),
          amplitude |-> Rat(max_mag * 163 * 2, interval),
          ptn |-> (spectrum.mid * 1000) \div max_mag]
    ELSE [sps |-> 0, amplitude |-> Rat(0, 1), ptn |-> 0]

\* max(pos_fft_magnitudes)
MaxMagnitude(spectrum) == Max({spectrum.mag[f] : f \in DOMAIN spectrum.mag})

CalculateStepsAmplitudePeaksPtn(spectrum, interval) ==
    Measurements(spectrum, MaxMagnitude(spectrum), interval)

\* |a - b|
AbsDiff(a, b) == IF a < b THEN b - a ELSE a - b

\* a gate without the peak-to-noise check
Gate_NoNoiseCheck(r) ==
    /\ r.sps < 10000
    /\ r.sps >= 1400
    /\ r.amplitude.num > 10000 * r.amplitude.den

\* a gate without the upper limit of 10 steps per second
Gate_NoUpperBound(r) ==
    /\ r.sps >= 1400
    /\ r.amplitude.num > 10000 * r.amplitude.den
    /\ r.ptn < 200

\* the acceptance gate of fft_and_processing (line 489) on the measurements
\* r: 10 > sps_fft >= 1.4 and amplitude_fft > 100 and ptn_ratio < 2
Gate(r) ==
    /\ r.sps < 10000
    /\ r.sps >= 1400
    /\ r.amplitude.num > 10000 * r.amplitude.den
    /\ r.ptn < 200

\* a correction that halves every cadence from 2.8 steps per second on
Halved_FromTwoEight(r, peaks, interval_seconds) ==
    IF r.sps >= 2800 THEN r.sps \div 2 ELSE r.sps

\* the harmonic correction (lines 499-502) on an accepted window; sps_peaks
\* = (peaks + 1) / interval_seconds is compared without dividing
Halved(r, peaks, interval_seconds) ==
    IF \/ /\ AbsDiff(r.sps * interval_seconds, 2000 * (peaks + 1)) <= 1000 * interval_seconds
          /\ 1000 * (peaks + 1) >= 1400 * interval_seconds
          /\ r.sps >= 2800
       \/ r.sps >= 5000
    THEN r.sps \div 2
    ELSE r.sps

\* the gates of fft_and_processing (lines 489-506) on the measurements r of
\* a window and its number of peaks
AcceptCadence(r, peaks, interval_seconds) ==
    IF Gate(r) THEN Halved(r, peaks, interval_seconds) ELSE 0

\* fft_and_processing: the accepted cadence of one window, in thousandths.
FftAndProcessing(df, interval_seconds) ==
    AcceptCadence(CalculateStepsAmplitudePeaksPtn(PerformFft(df), NumSamples(df)),
                  CyclePeaks(df), interval_seconds)

\* get_magnitudes: the high-pass filter refuses a signal of at most
\* 6 * order + 1 samples, and the extractor then returns an empty frame.
GetMagnitudes(df) ==
    IF NumSamples(df) <= 6 * HighpassOrder + 1 THEN <<>> ELSE df

\* pd.Grouper(freq = interval_size seconds): bins are counted from midnight
\* of the day of the first sample (origin = "start_day").
BinOf(t, origin, interval_size) == origin + ((t - origin) \div interval_size) * interval_size

\* get_steps: one row per bin from the first to the last occupied bin,
\* empty bins included.
\* a check that lets a window of two seconds through
ShortWindow_TwoSeconds(samples) == samples < 2 * SamplingRate

\* line 597: group.shape[0] < min_samples
ShortWindow(samples) == samples < min_samples

\* lines 594-613: the row of the bin at ts, whose samples are group
WindowRow(ts, group, samples, interval_size) ==
    IF ShortWindow(samples)
    THEN [time |-> ts, sample |-> 0, sps |-> 0]
    ELSE [time |-> ts, sample |-> samples \div 2,
          sps |-> FftAndProcessing(group, interval_size)]

\* the samples of df that fall into the bin at ts
GroupAt(df, origin, ts, interval_size) ==
    SelectSeq(df, LAMBDA b : BinOf(b.Time, origin, interval_size) = ts)

GroupRow(ts, group, interval_size) == WindowRow(ts, group, NumSamples(group), interval_size)

\* the rows of the bins from first to last
BinRows(df, origin, first, last, interval_size) ==
    [k \in 1..((last - first) \div interval_size + 1) |->
        GroupRow(first + (k - 1) * interval_size,
                 GroupAt(df, origin, first + (k - 1) * interval_size, interval_size),
                 interval_size)]

GetStepsFrom(df, origin, t_min, t_max, interval_size) ==
    BinRows(df, origin, BinOf(t_min, origin, interval_size),
            BinOf(t_max, origin, interval_size), interval_size)

GetStepsBetween(df, t_min, t_max, interval_size) ==
    GetStepsFrom(df, (t_min \div DaySeconds) * DaySeconds, t_min, t_max, interval_size)

TimesOf(df) == {df[i].Time : i \in DOMAIN df}

GetSteps(df, interval_size) ==
    GetStepsBetween(df, Min(TimesOf(df)), Max(TimesOf(df)), interval_size)

\* calculate_steps
StepsOfMagnitudes(df_mag, interval_size) ==
    IF df_mag = <<>> THEN <<>> ELSE GetSteps(df_mag, interval_size)

CalculateSteps(df, interval_size) == StepsOfMagnitudes(GetMagnitudes(df), interval_size)

\* (df['sps'] * interval).cumsum(): the running sum, row by row
RECURSIVE CumSum(_, _)
CumSum(rows, interval) ==
    IF rows = <<>> THEN <<>>
    ELSE LET before == CumSum(SubSeq(rows, 1, Len(rows) - 1), interval)
             acc == IF before = <<>> THEN 0 ELSE before[Len(before)]
         IN  Append(before, acc + rows[Len(rows)].sps * interval)

\* ------------------------------------------------------------------------
\* AccelerometerStepProcessor
\* ------------------------------------------------------------------------
\* An optional value: None, or Some(v) holding v
Some(v) == <<v>>
Val(o) == o[1]

\* What a call of process_participant hands back: a frame, Python's None,
\* or an exception; acc is df_acc as the call left it (the samples that
\* survived the trimming, empty when the call did not get that far)
Frame(df, acc) == [tag |-> "frame", df |-> df, acc |-> acc]
NoFrame(acc) == [tag |-> "none", df |-> <<>>, acc |-> acc]
Raised == [tag |-> "raised", df |-> <<>>, acc |-> <<>>]

\* df_acc.index += pd.Timedelta(hours=1)
ShiftClock(df) == [i \in DOMAIN df |-> [df[i] EXCEPT !.Time = @ + ClockShift]]

\* TrimmedAcc with the march-start trim as a second "if" instead of "elif"
TrimmedAcc_Both(participant_id, df_acc) ==
    LET a == IF participant_id \in DOMAIN gps_crossing_times
                /\ "start" \in DOMAIN gps_crossing_times[participant_id]
             THEN SelectSeq(df_acc, LAMBDA b : b.Time >= gps_crossing_times[participant_id]["start"])
             ELSE df_acc
        c == IF participant_id \in DOMAIN gps_crossing_times
                /\ "end" \in DOMAIN gps_crossing_times[participant_id]
             THEN SelectSeq(a, LAMBDA b : b.Time <= gps_crossing_times[participant_id]["end"])
             ELSE a
    IN  IF march_start_time # None
        THEN SelectSeq(c, LAMBDA b : b.Time >= Val(march_start_time))
        ELSE c

\* a trimming that reads what the loop wrote for the participant before:
\* the samples up to the end of the first window of the last result are
\* dropped
TrimmedAcc_AfterPrevious(participant_id, df_acc) ==
    IF results = <<>> THEN df_acc
    ELSE SelectSeq(df_acc, LAMBDA b :
             b.Time >= results[Len(results)][1].time + window_size)

\* the trimming of process_participant (lines 842-875): the frame that goes
\* on to calculate_steps.  A crossing entry is a dict with keys among
\* "start" and "end".
TrimmedAcc(participant_id, df_acc) ==
    IF participant_id \in DOMAIN gps_crossing_times
    THEN LET crossing_times == gps_crossing_times[participant_id]
             a == IF "start" \in DOMAIN crossing_times
                  THEN SelectSeq(df_acc, LAMBDA b : b.Time >= crossing_times["start"])
                  ELSE df_acc
         IN  IF "end" \in DOMAIN crossing_times
             THEN SelectSeq(a, LAMBDA b : b.Time <= crossing_times["end"])
             ELSE a
    ELSE IF march_start_time # None
    THEN SelectSeq(df_acc, LAMBDA b : b.Time >= Val(march_start_time))
    ELSE df_acc

\* lines 885-892: the step frame with its running total and participant
StepFrame(participant_id, df_acc, steps_df, cum) ==
    IF steps_df = <<>> THEN NoFrame(df_acc)
    ELSE Frame([i \in DOMAIN steps_df |->
                   [time |-> steps_df[i].time,
                    sample |-> steps_df[i].sample,
                    sps |-> steps_df[i].sps,
                    cumulative_steps |-> cum[i],
                    participant_id |-> participant_id]], df_acc)

StepsOfTrimmed(participant_id, df_acc, steps_df) ==
    StepFrame(participant_id, df_acc, steps_df, CumSum(steps_df, window_size))

\* lines 842-892 once df_acc is trimmed
AfterTrim(participant_id, df_acc) ==
    IF (participant_id \in DOMAIN gps_crossing_times \/ march_start_time # None)
       /\ df_acc = <<>>
    THEN NoFrame(df_acc)
    ELSE StepsOfTrimmed(participant_id, df_acc, CalculateSteps(df_acc, window_size))

\* the body of the try block of process_participant: the step frame, None
\* on an early return, Raised when a statement raises
ProcessParticipantBody(participant_id, acc_file) ==
    IF acc_file.kind = "unreadable" THEN Raised
    ELSE IF acc_file.kind = "nocols" THEN NoFrame(<<>>)
    ELSE AfterTrim(participant_id, TrimmedAcc(participant_id, ShiftClock(acc_file.blocks)))

\* lines 894-896: except Exception, return None
CatchAll(r) == IF r.tag = "raised" THEN NoFrame(r.acc) ELSE r

\* process_participant without its try/except
ProcessParticipant_NoCatch(participant_id, acc_file) ==
    ProcessParticipantBody(participant_id, acc_file)

\* process_participant: every exception of the body is caught and turned
\* into None
ProcessParticipant(participant_id, acc_file) ==
    CatchAll(ProcessParticipantBody(participant_id, acc_file))

\* line 931: the cumulative steps recomputed over the combined frame
WithTotals(combined_df, cum) ==
    [i \in DOMAIN combined_df |-> [combined_df[i] EXCEPT !.cumulative_steps = cum[i]]]

Recount(combined_df) == WithTotals(combined_df, CumSum(combined_df, window_size))

\* CombineFrames keeping the per-file counters (no recomputation)
CombineFrames_Naive(participant_dfs) == SortByTime(Concat(participant_dfs))

\* lines 928-931: concat, sort by time, recompute the cumulative steps
CombineFrames(participant_dfs) ==
    Recount(SortByTime(Concat(participant_dfs)))

\* lines 919-922: what a call of process_participant adds to the loop's
\* state: the frame is appended when there is one
AfterCall(before, steps_df) ==
    IF before.raised \/ steps_df.tag = "raised"
    THEN [before EXCEPT !.raised = TRUE]
    ELSE [raised |-> FALSE,
          dfs |-> IF steps_df.tag = "frame"
                  THEN Append(before.dfs, steps_df.df) ELSE before.dfs,
          calls |-> Append(before.calls,
                       [ok |-> steps_df.tag = "frame",
                        rows |-> Len(steps_df.df),
                        kept |-> {steps_df.acc[i].Time : i \in DOMAIN steps_df.acc}])]

\* the inner loop of process_all_participants over the files of one
\* participant: participant_dfs and, per file, what the call returned;
\* raised when a call let an exception through
RECURSIVE ProcessFiles(_, _)
ProcessFiles(participant_id, acc_files) ==
    IF acc_files = <<>> THEN [raised |-> FALSE, dfs |-> <<>>, calls |-> <<>>]
    ELSE AfterCall(ProcessFiles(participant_id, SubSeq(acc_files, 1, Len(acc_files) - 1)),
                   ProcessParticipant(participant_id, acc_files[Len(acc_files)]))

\* one iteration of the outer loop of process_all_participants
ProcessOneParticipant(participant_id) ==
    /\ pc = "loop"
    /\ participant_id \in todo
    /\ LET r == ProcessFiles(participant_id, data_dir[participant_id])
       IN  IF r.raised
           THEN /\ pc' = "aborted"
                /\ attempts' = [attempts EXCEPT ![participant_id] = r.calls]
                /\ UNCHANGED <<todo, results>>
           ELSE /\ todo' = todo \ {participant_id}
                /\ attempts' = [attempts EXCEPT ![participant_id] = r.calls]
                /\ results' =
                     IF r.dfs = <<>> THEN results
                     ELSE IF Len(r.dfs) > 1 THEN Append(results, CombineFrames(r.dfs))
                     ELSE Append(results, r.dfs[1])
                /\ pc' = pc
    /\ UNCHANGED <<data_dir, window_size, march_start_time, gps_crossing_times>>
    /\ UNCHANGED <<gpsVars, mergeVars, callVars>>

\* the outer loop is exhausted: return results
ReturnResults ==
    /\ pc = "loop"
    /\ todo = {}
    /\ pc' = "done"
    /\ UNCHANGED <<data_dir, window_size, march_start_time, gps_crossing_times,
                   todo, results, attempts>>
    /\ UNCHANGED <<gpsVars, mergeVars, callVars>>

NextBatch == (\E p \in DOMAIN data_dir : ProcessOneParticipant(p)) \/ ReturnResults

\* ------------------------------------------------------------------------
\* Inputs of the batch runs
\* ------------------------------------------------------------------------
File(kind, blocks) == [kind |-> kind, blocks |-> blocks]

\* a gap-free run of full seconds starting at device second t0
MkBlocks(t0, sigs) ==
    [i \in DOMAIN sigs |-> [Time |-> t0 + i - 1, n |-> SamplingRate, sig |-> sigs[i]]]

FileStarts == {0, 6}

Catalogue ==
    {File("unreadable", <<>>), File("nocols", <<>>),
     File("ok", <<[Time |-> 0, n |-> 6 * HighpassOrder + 1, sig |-> Walk]>>)}
    \cup {File("ok", MkBlocks(t0, [i \in 1..FileLen |-> sig])) :
              t0 \in FileStarts, sig \in {Walk, Run}}

\* crossing entries as the watch run writes them, on the watch clock
CrossingEntries ==
    {[k \in {"start"} |-> ClockShift + 1],
     [k \in {"end"} |-> ClockShift + 10],
     [k \in {"start", "end"} |-> IF k = "start" THEN ClockShift + 1 ELSE ClockShift + 10]}

\* the estimator, the classifier, the filters, the access check, the login
\* and the cycle counter at rest
NoWindow ==
    /\ win_group = <<>>
    /\ win_interval = DefaultWindow
    /\ sps_l = <<>>
    /\ sample_l = <<>>
    /\ fft = None
    /\ invoked = {}
    /\ wpc = "idle"

NoTrace ==
    /\ trace = None
    /\ distribution = None
    /\ dpc = "idle"

NoFilter ==
    /\ filter_call = None
    /\ filter_result = None

NoAuth ==
    /\ db_manager = None
    /\ march_participants = {}
    /\ request = None
    /\ granted = None

NoLogin ==
    /\ users_table = <<>>
    /\ clock = 0
    /\ login_request = None
    /\ login_result = None

NoCycle ==
    /\ window = <<>>
    /\ counted = None
    /\ exported = None

NoCalls == NoWindow /\ NoTrace /\ NoFilter /\ NoAuth /\ NoLogin /\ NoCycle

\* the locator at rest
NoTrack ==
    /\ gps_df = <<>>
    /\ start_coords = None
    /\ end_coords = None
    /\ gps_tolerance_m = DefaultGpsTolerance
    /\ crossing = None
    /\ gpc = "idle"

\* the merger at rest
NoMerge ==
    /\ watch_exists = FALSE
    /\ step_exists = FALSE
    /\ df_watch = <<>>
    /\ df_steps = <<>>
    /\ tolerance = None
    /\ df_merged = <<>>
    /\ mpc = "idle"

InitRun ==
    /\ NoTrack
    /\ NoMerge
    /\ NoCalls
    /\ todo = DOMAIN data_dir
    /\ results = <<>>
    /\ attempts = [p \in DOMAIN data_dir |-> <<>>]
    /\ pc = "loop"

\* two participants, the first with up to MaxFiles files
Init ==
    /\ \E f1 \in UNION {[1..k -> Catalogue] : k \in 1..MaxFiles}, f2 \in Catalogue :
           data_dir = [p \in {"p1", "p2"} |-> IF p = "p1" THEN f1 ELSE <<f2>>]
    /\ window_size = DefaultWindow
    /\ march_start_time \in {None, Some(ClockShift + 8)}
    /\ \/ gps_crossing_times = <<>>
       \/ \E e \in CrossingEntries : gps_crossing_times = [p \in {"p1"} |-> e]
    /\ InitRun

Next == NextBatch

Spec == Init /\ [][Next]_vars

\* one recording, given to participant "whole" as one file and to
\* participant "parts" cut in two after its k-th second
InitSplit ==
    /\ \E sigs \in [1..RecLen -> {Still, Walk}], t0 \in 0..MaxStart,
          k \in 1..(RecLen - 1) :
           LET rec == MkBlocks(t0, sigs)
           IN  data_dir = [p \in {"whole", "parts"} |->
                   IF p = "whole" THEN <<File("ok", rec)>>
                   ELSE <<File("ok", SubSeq(rec, 1, k)), File("ok", SubSeq(rec, k + 1, RecLen))>>]
    /\ window_size = DefaultWindow
    /\ march_start_time = None
    /\ gps_crossing_times = <<>>
    /\ InitRun

SpecSplit == InitSplit /\ [][NextBatch]_vars

\* the sub-sequence of rec made of the blocks whose index is in keep
KeepBlocks(rec, keep) == SelectSeq(rec, LAMBDA b : \E i \in keep : rec[i] = b)

\* the device seconds a recording starts at: early in the day, and shortly
\* before the midnight of the watch clock
GapStarts == (0..MaxStart) \cup {DaySeconds - ClockShift - k : k \in 0..MaxStart}

\* window sizes of --window-size: the default and one that does not divide
\* the day
GapWindows == {DefaultWindow, 7}

\* one recording of steady walking, given to participant "full" as it is
\* and to participant "gappy" with some of its samples removed
InitGap ==
    /\ \E t0 \in GapStarts, keep \in (SUBSET (1..RecLen)) \ {{}} :
           data_dir = [p \in {"full", "gappy"} |->
               IF p = "full" THEN <<File("ok", MkBlocks(t0, [i \in 1..RecLen |-> Walk]))>>
               ELSE <<File("ok", KeepBlocks(MkBlocks(t0, [i \in 1..RecLen |-> Walk]), keep))>>]
    /\ window_size \in GapWindows
    /\ march_start_time = None
    /\ gps_crossing_times = <<>>
    /\ InitRun

SpecGap == InitGap /\ [][NextBatch]_vars

\* ------------------------------------------------------------------------
\* GPS Crossing Locator.  Coordinates are metres north of a reference point
\* on one meridian; for two points of the same meridian the Haversine
\* formula gives R * |dlat|, the length of the arc between them.
\* ------------------------------------------------------------------------
HaversineDistance(lat1, lat2) == IF lat1 >= lat2 THEN lat1 - lat2 ELSE lat2 - lat1

\* find_gps_crossing with "<" where the code has "<="
FindGpsCrossing_Strict(df, target_coords, tolerance_m) ==
    IF df = <<>> \/ target_coords = None THEN None
    ELSE LET within == SelectSeq(df, LAMBDA row :
                           HaversineDistance(row.latitude, Val(target_coords)) < tolerance_m)
         IN  IF within # <<>> THEN Some(within[1].timestamp) ELSE None

\* find_gps_crossing: the timestamp of the first row within tolerance
FindGpsCrossing(df, target_coords, tolerance_m) ==
    IF df = <<>> \/ target_coords = None THEN None
    ELSE LET within_tolerance == SelectSeq(df, LAMBDA row :
                 HaversineDistance(row.latitude, Val(target_coords)) <= tolerance_m)
         IN  IF within_tolerance # <<>>
             THEN Some(within_tolerance[1].timestamp)
             ELSE None

\* the rows the end search looks at, with ">=" where the code has ">"
EndSearchFrame_Inclusive(df, crossing_times) ==
    IF "start" \in DOMAIN crossing_times
    THEN SelectSeq(df, LAMBDA row : row.timestamp >= crossing_times["start"])
    ELSE df

\* the rows the end search looks at (lines 243-246)
EndSearchFrame(df, crossing_times) ==
    IF "start" \in DOMAIN crossing_times
    THEN SelectSeq(df, LAMBDA row : row.timestamp > crossing_times["start"])
    ELSE df

\* find_gps_crossing_times: None, or the dict of the crossings found
FindGpsCrossingTimesOf(df) ==
    IF df = <<>> THEN None
    ELSE IF start_coords = None /\ end_coords = None THEN None
    ELSE LET start_time == IF start_coords # None
                           THEN FindGpsCrossing(df, start_coords, gps_tolerance_m)
                           ELSE None
             with_start == IF start_time # None
                           THEN [k \in {"start"} |-> Val(start_time)]
                           ELSE <<>>
             end_time == IF end_coords # None
                         THEN FindGpsCrossing(EndSearchFrame(df, with_start),
                                              end_coords, gps_tolerance_m)
                         ELSE None
             crossing_times ==
                 [k \in DOMAIN with_start \cup (IF end_time # None THEN {"end"} ELSE {}) |->
                     IF k = "start" THEN Val(start_time) ELSE Val(end_time)]
         IN  IF DOMAIN crossing_times = {} THEN None ELSE Some(crossing_times)

Latitudes == {0, 50, 100}

\* parse_gpx_file reads one more point of the track; a track is recorded
\* in time order
ParsePoint(timestamp, latitude) ==
    /\ gpc = "parse"
    /\ Len(gps_df) < MaxTrack
    /\ gps_df # <<>> => timestamp >= gps_df[Len(gps_df)].timestamp
    /\ gps_df' = Append(gps_df, [timestamp |-> timestamp, latitude |-> latitude])
    /\ UNCHANGED <<start_coords, end_coords, gps_tolerance_m, crossing, gpc>>
    /\ UNCHANGED <<stepVars, mergeVars, callVars>>

\* find_gps_crossing_times on the track read
FindGpsCrossingTimes ==
    /\ gpc = "parse"
    /\ crossing' = FindGpsCrossingTimesOf(gps_df)
    /\ gpc' = "done"
    /\ UNCHANGED <<gps_df, start_coords, end_coords, gps_tolerance_m>>
    /\ UNCHANGED <<stepVars, mergeVars, callVars>>

NextGps ==
    \/ \E t \in 1..MaxStamp, lat \in Latitudes : ParsePoint(t, lat)
    \/ FindGpsCrossingTimes

\* the orchestrator at rest
NoBatch ==
    /\ data_dir = <<>>
    /\ window_size = DefaultWindow
    /\ march_start_time = None
    /\ gps_crossing_times = <<>>
    /\ todo = {}
    /\ results = <<>>
    /\ attempts = <<>>
    /\ pc = "idle"

InitGps ==
    /\ NoBatch
    /\ NoMerge
    /\ NoCalls
    /\ gps_df = <<>>
    /\ start_coords \in {None, Some(0)}
    /\ end_coords \in {None, Some(0), Some(100)}
    /\ gps_tolerance_m = DefaultGpsTolerance
    /\ crossing = None
    /\ gpc = "parse"

SpecGps == InitGps /\ [][NextGps]_vars

\* ------------------------------------------------------------------------
\* Timeline Merger.  Timestamps are in seconds; cumulative_distance_km is
\* held in hundredths of a kilometre; steps of a merged row are rationals
\* (pandas floats), num / den.
\* ------------------------------------------------------------------------
\* distance in metres of a cumulative_distance_km value ("* 1000")
DistanceM(km100) == km100 * 10

\* sort_values(merge_on), modelled as a stable insertion sort
RECURSIVE InsertByTimestamp(_, _)
InsertByTimestamp(sorted, r) ==
    IF sorted = <<>> THEN <<r>>
    ELSE IF sorted[Len(sorted)].timestamp <= r.timestamp THEN Append(sorted, r)
    ELSE Append(InsertByTimestamp(SubSeq(sorted, 1, Len(sorted) - 1), r),
                sorted[Len(sorted)])

RECURSIVE SortByTimestamp(_)
SortByTimestamp(rows) ==
    IF rows = <<>> THEN <<>>
    ELSE InsertByTimestamp(SortByTimestamp(SubSeq(rows, 1, Len(rows) - 1)), rows[Len(rows)])

\* prepare_step_data: keep the keys, rename the two step columns
PrepareStepData(steps) ==
    [i \in DOMAIN steps |->
        [user_id |-> steps[i].user_id, timestamp |-> steps[i].timestamp,
         steps_acc |-> steps[i].cumulative_steps,
         sps_acc |-> steps[i].steps_per_second]]

\* the right row pd.merge_asof(direction='nearest') pairs with a left row:
\* the last right row not later and the first right row not earlier, each
\* only within the tolerance, the earlier one on a tie; 0 when there is none
NearestWithin(l, right, tol) ==
    LET back == {j \in DOMAIN right :
                    right[j].user_id = l.user_id /\ right[j].timestamp <= l.timestamp}
        fwd == {j \in DOMAIN right :
                    right[j].user_id = l.user_id /\ right[j].timestamp >= l.timestamp}
        b == IF back # {} /\ l.timestamp - right[Max(back)].timestamp <= tol
             THEN Max(back) ELSE 0
        f == IF fwd # {} /\ right[Min(fwd)].timestamp - l.timestamp <= tol
             THEN Min(fwd) ELSE 0
    IN  IF b # 0 /\ f # 0
        THEN IF l.timestamp - right[b].timestamp <= right[f].timestamp - l.timestamp
             THEN b ELSE f
        ELSE IF b # 0 THEN b ELSE f

\* merge_asof as an inner join: rows without a match are dropped
MergeAsof_Inner(left, right, tol) ==
    LET hit == SelectSeq(left, LAMBDA l : NearestWithin(l, right, tol) # 0)
    IN  [i \in DOMAIN hit |->
            LET j == NearestWithin(hit[i], right, tol)
            IN  [user_id |-> hit[i].user_id, timestamp |-> hit[i].timestamp,
                 row |-> hit[i].row,
                 cumulative_distance_km |-> hit[i].cumulative_distance_km,
                 steps |-> hit[i].steps,
                 steps_acc |-> Some(right[j].steps_acc),
                 sps_acc |-> Some(right[j].sps_acc)]]

\* pd.merge_asof(left, right, on=merge_on, by=[march_id, user_id],
\* direction='nearest', tolerance): every left row, with the step columns
\* of its match or empty step columns
MergeAsof(left, right, tol) ==
    [i \in DOMAIN left |->
        LET j == NearestWithin(left[i], right, tol)
        IN  [user_id |-> left[i].user_id, timestamp |-> left[i].timestamp,
             row |-> left[i].row,
             cumulative_distance_km |-> left[i].cumulative_distance_km,
             steps |-> left[i].steps,
             steps_acc |-> IF j = 0 THEN None ELSE Some(right[j].steps_acc),
             sps_acc |-> IF j = 0 THEN None ELSE Some(right[j].sps_acc)]]

\* _estimate_steps_from_distance with the band taken as the open interval
EstimateStepsFromDistance_Open(merged) ==
    LET has_both == {i \in DOMAIN merged :
                        /\ merged[i].cumulative_distance_km # None
                        /\ merged[i].steps_acc # None
                        /\ Val(merged[i].cumulative_distance_km) > 0
                        /\ Val(merged[i].steps_acc) > 0}
    IN  IF has_both = {} THEN merged
        ELSE LET max_distance_m ==
                     DistanceM(Max({Val(merged[i].cumulative_distance_km) : i \in has_both}))
                 max_steps == Max({Val(merged[i].steps_acc) : i \in has_both})
             IN  IF 4 * max_steps < 10 * max_distance_m /\ 10 * max_distance_m < 15 * max_steps
                 THEN [i \in DOMAIN merged |->
                         IF /\ merged[i].cumulative_distance_km # None
                            /\ merged[i].steps_acc = None
                            /\ Val(merged[i].cumulative_distance_km) > 0
                         THEN [merged[i] EXCEPT !.steps =
                                  Some(Rat(DistanceM(Val(merged[i].cumulative_distance_km)) * max_steps,
                                           max_distance_m))]
                         ELSE merged[i]]
                 ELSE merged

\* _estimate_steps_from_distance
EstimateStepsFromDistance(merged) ==
    LET has_both == {i \in DOMAIN merged :
                        /\ merged[i].cumulative_distance_km # None
                        /\ merged[i].steps_acc # None
                        /\ Val(merged[i].cumulative_distance_km) > 0
                        /\ Val(merged[i].steps_acc) > 0}
    IN  IF has_both = {} THEN merged
        ELSE LET max_distance_km == Max({Val(merged[i].cumulative_distance_km) : i \in has_both})
                 max_steps == Max({Val(merged[i].steps_acc) : i \in has_both})
                 max_distance_m == DistanceM(max_distance_km)
                 \* avg_stride_length_m = max_distance_m / max_steps, and
                 \* 0.4 <= avg_stride_length_m <= 1.5 without dividing
                 in_band == /\ 4 * max_steps <= 10 * max_distance_m
                            /\ 10 * max_distance_m <= 15 * max_steps
             IN  IF max_distance_km > 0 /\ max_steps > 0 /\ in_band
                 THEN [i \in DOMAIN merged |->
                         IF /\ merged[i].cumulative_distance_km # None
                            /\ merged[i].steps_acc = None
                            /\ Val(merged[i].cumulative_distance_km) > 0
                         THEN \* distance_m / avg_stride_length_m
                              [merged[i] EXCEPT !.steps =
                                  Some(Rat(DistanceM(Val(merged[i].cumulative_distance_km)) * max_steps,
                                           max_distance_m))]
                         ELSE merged[i]]
                 ELSE merged

\* a row of the merged frame: steps_acc dropped, sps_acc renamed
OutRow(r, steps_per_second) ==
    [user_id |-> r.user_id, timestamp |-> r.timestamp, row |-> r.row,
     cumulative_distance_km |-> r.cumulative_distance_km,
     steps |-> r.steps, steps_per_second |-> steps_per_second]

\* a merge that leaves the watch's steps in the matched rows
MergeParticipantData_KeepWatch(watch_group, step_group) ==
    IF step_group = <<>>
    THEN [i \in DOMAIN watch_group |-> OutRow(watch_group[i], None)]
    ELSE LET merged == MergeAsof(SortByTimestamp(watch_group), SortByTimestamp(step_group),
                                 Val(tolerance))
             estimated == EstimateStepsFromDistance(merged)
         IN  [i \in DOMAIN estimated |-> OutRow(estimated[i], estimated[i].sps_acc)]

\* merge_participant_data
MergeParticipantData(watch_group, step_group) ==
    IF step_group = <<>>
    THEN [i \in DOMAIN watch_group |-> OutRow(watch_group[i], None)]
    ELSE LET merged == MergeAsof(SortByTimestamp(watch_group), SortByTimestamp(step_group),
                                 Val(tolerance))
             replaced == [i \in DOMAIN merged |->
                             IF merged[i].steps_acc # None
                             THEN [merged[i] EXCEPT !.steps = Some(Rat(Val(merged[i].steps_acc), 1))]
                             ELSE merged[i]]
             estimated == EstimateStepsFromDistance(replaced)
         IN  [i \in DOMAIN estimated |-> OutRow(estimated[i], estimated[i].sps_acc)]

\* groupby(['march_id', 'user_id']) visits the groups in key order
UserOrder == <<"u1", "u2", "u3">>

\* merge_data: the merged groups, concatenated
MergeDataOf(watch, steps) ==
    LET df_steps_merge == PrepareStepData(steps)
        group(u) == MergeParticipantData(
                        SelectSeq(watch, LAMBDA r : r.user_id = u),
                        SelectSeq(df_steps_merge, LAMBDA r : r.user_id = u))
    IN  Concat([k \in DOMAIN UserOrder |-> group(UserOrder[k])])

\* MarchDataMerger.__init__: both input files must exist; the tolerance
\* defaults to 30 seconds
MergerInit ==
    /\ mpc = "start"
    /\ IF ~watch_exists \/ ~step_exists
       THEN /\ mpc' = "FileNotFoundError"
            /\ UNCHANGED tolerance
       ELSE /\ mpc' = "ready"
            /\ tolerance' = IF tolerance = None THEN Some(DefaultToleranceSeconds)
                            ELSE tolerance
    /\ UNCHANGED <<watch_exists, step_exists, df_watch, df_steps, df_merged>>
    /\ UNCHANGED <<stepVars, gpsVars, callVars>>

\* main: load_data, then merge_data; pd.concat of no groups raises
MergeData ==
    /\ mpc = "ready"
    /\ IF df_watch = <<>>
       THEN mpc' = "ValueError" /\ UNCHANGED df_merged
       ELSE mpc' = "done" /\ df_merged' = MergeDataOf(df_watch, df_steps)
    /\ UNCHANGED <<watch_exists, step_exists, df_watch, df_steps, tolerance>>
    /\ UNCHANGED <<stepVars, gpsVars, callVars>>

NextMerge == MergerInit \/ MergeData

\* ---- inputs of the merger ----
\* cumulative steps the step timeline holds at a timestamp
StepsAt(ts) == IF ts = 0 THEN 0 ELSE IF ts < 2 * MinuteSeconds THEN 100 ELSE 200

StepRow(u, ts) ==
    [user_id |-> u, timestamp |-> ts, cumulative_steps |-> StepsAt(ts),
     steps_per_second |-> 200]

\* the watch timeline has one row per minute
WatchRow(i, u, d, with_steps) ==
    [user_id |-> u, timestamp |-> MinuteSeconds * (i - 1), row |-> i,
     cumulative_distance_km |-> d,
     steps |-> IF with_steps THEN Some(Rat(i, 1)) ELSE None]

\* step timelines: per participant in time order, participants in order
StepFrames(users, stamps, max) ==
    LET key(r) == (IF r.user_id = "u1" THEN 0 ELSE 1000) + r.timestamp
        rows == {StepRow(u, ts) : u \in users, ts \in stamps}
    IN  {f \in UNION {[1..k -> rows] : k \in 0..max} :
            \A i \in 1..(Len(f) - 1) : key(f[i]) < key(f[i + 1])}

InitFiles(watch, steps) ==
    /\ NoBatch
    /\ NoTrack
    /\ NoCalls
    /\ watch_exists \in BOOLEAN
    /\ step_exists \in BOOLEAN
    /\ df_watch = IF watch_exists THEN watch ELSE <<>>
    /\ df_steps = IF step_exists THEN steps ELSE <<>>
    /\ tolerance = None
    /\ df_merged = <<>>
    /\ mpc = "start"

\* join runs: two participants, step rows at, near and beyond the tolerance
InitMerge ==
    \E k \in 0..MaxWatch, with_steps \in BOOLEAN :
      \E us \in [1..k -> {"u1", "u2"}], ds \in [1..k -> {None, Some(4)}],
         steps \in StepFrames({"u1", "u2"}, {0, 30, 31, 90}, MaxStepRows) :
           InitFiles([i \in 1..k |-> WatchRow(i, us[i], ds[i], with_steps)], steps)

SpecMerge == InitMerge /\ [][NextMerge]_vars

\* stride runs: one participant, step rows on the watch minutes, cumulative
\* distances of 0, 40, 160 and 300 m that never decrease
DistChoices == {None, Some(0), Some(4), Some(16), Some(30)}

InitStride ==
    \E with_steps \in BOOLEAN, ds \in [1..StrideRows -> DistChoices],
       on \in SUBSET (1..StrideRows) :
        /\ \A i, j \in 1..StrideRows :
               (i < j /\ ds[i] # None /\ ds[j] # None) => Val(ds[i]) <= Val(ds[j])
        /\ InitFiles([i \in 1..StrideRows |-> WatchRow(i, "u1", ds[i], with_steps)],
                     SortByTimestamp([i \in 1..Cardinality(on) |->
                        StepRow("u1", MinuteSeconds *
                            ((CHOOSE m \in on : Cardinality({x \in on : x < m}) = i - 1) - 1))]))

SpecStride == InitStride /\ [][NextMerge]_vars

\* ------------------------------------------------------------------------
\* Runs with two participants whose own inputs are the same
\* ------------------------------------------------------------------------
\* the sets of participants that have a crossing entry
TwinEntrySets == {{}, {"twin_a", "twin_b"}, {"other"}, {"twin_a", "other", "twin_b"}}

\* a run of the step processor: twin_a and twin_b have the same file and
\* the same crossing entry, if any; the files are handled in any order
InitTwinSteps ==
    /\ \E f \in Catalogue, g \in Catalogue :
           data_dir = [p \in {"twin_a", "other", "twin_b"} |->
                          IF p = "other" THEN <<g>> ELSE <<f>>]
    /\ window_size = DefaultWindow
    /\ march_start_time \in {None, Some(ClockShift + 8)}
    /\ \E ps \in TwinEntrySets, e \in CrossingEntries :
           gps_crossing_times = [p \in ps |-> e]
    /\ InitRun

\* the watch rows of participant u1 again, for participant u3
TwinRows(rows) ==
    [i \in DOMAIN rows |-> [rows[i] EXCEPT !.user_id = "u3", !.row = Len(rows) + i]]

\* the watch and the step rows of the participant between the two
OtherWatch(k, present) ==
    IF present THEN <<[WatchRow(1, "u2", Some(4), TRUE) EXCEPT !.row = 2 * k + 1]>> ELSE <<>>

OtherSteps(present) == IF present THEN <<StepRow("u2", 0)>> ELSE <<>>

\* a run of the merger: u1 and u3 have the same watch rows and the same
\* step rows, u2 lies between them
InitTwinMerge ==
    \E k \in 1..MaxWatch, with_steps \in BOOLEAN, w \in BOOLEAN, st \in BOOLEAN :
      \E ds \in [1..k -> {None, Some(4)}],
         steps \in StepFrames({"u1"}, {0, 30, 31, 90}, MaxStepRows) :
           InitFiles([i \in 1..k |-> WatchRow(i, "u1", ds[i], with_steps)]
                         \o OtherWatch(k, w)
                         \o TwinRows([i \in 1..k |-> WatchRow(i, "u1", ds[i], with_steps)]),
                     steps \o OtherSteps(st)
                         \o [i \in DOMAIN steps |-> [steps[i] EXCEPT !.user_id = "u3"]])

InitTwins == InitTwinSteps \/ InitTwinMerge

NextTwins == NextBatch \/ NextMerge

SpecTwins == InitTwins /\ [][NextTwins]_vars

\* ------------------------------------------------------------------------
\* get_steps on one group of the Grouper (lines 594-613) and the call of
\* fft_and_processing it makes (lines 451-506)
\* ------------------------------------------------------------------------
\* the functions fft_and_processing calls on measurements r: the low-pass
\* filter and the cycle counter run only behind the gate of line 489
EstimatorCalls(r) ==
    {"_perform_fft", "_calculate_steps_amplitude_peaks_ptn"}
        \cup (IF Gate(r) THEN {"lowpass_filter", "find_peaks_and_minimas_np"} ELSE {})

\* the locals of fft_and_processing on window df: interval (line 473), the
\* largest magnitude, the three measurements and, behind the gate, the
\* number of peaks
FftLocals(df, spectrum, r) ==
    [interval |-> NumSamples(df),
     max_mag |-> MaxMagnitude(spectrum),
     sps_fft |-> r.sps,
     amplitude_fft |-> r.amplitude,
     ptn_ratio |-> r.ptn,
     peaks |-> IF Gate(r) THEN Some(CyclePeaks(df)) ELSE None]

MeasurementsOf(df) == CalculateStepsAmplitudePeaksPtn(PerformFft(df), NumSamples(df))

\* one pass of the loop of get_steps, on group win_group
GetStepsGroup ==
    /\ wpc = "loop"
    /\ sps_l' = Append(sps_l, GroupRow(0, win_group, win_interval).sps)
    /\ sample_l' = Append(sample_l, GroupRow(0, win_group, win_interval).sample)
    /\ fft' = IF ShortWindow(NumSamples(win_group)) THEN None
              ELSE Some(FftLocals(win_group, PerformFft(win_group), MeasurementsOf(win_group)))
    /\ invoked' = IF ShortWindow(NumSamples(win_group)) THEN {}
                  ELSE {"fft_and_processing"} \cup EstimatorCalls(MeasurementsOf(win_group))
    /\ wpc' = "done"
    /\ UNCHANGED <<win_group, win_interval, pipeVars, distVars, filterVars, authVars, loginVars, cycleVars>>

NextWindow == GetStepsGroup

\* the groups: one block of n samples of one tone.  The sample counts lie
\* on both sides of 3 x 52 and reach the full window, the frequencies
\* (thousandths of a Hz) lie on both sides of 1.4, 2.8, 5, 5.6 and 10, the
\* magnitudes per sample on both sides of amplitude 100 (30 gives 97.8, 31
\* gives 101.06; 28 is a sinusoid of amplitude 103.7), the medians on both
\* sides of peak-to-noise 2, and the counter sees the tone or half its
\* rate.
WindowSizes == {4, 8}
WindowSamples(seconds) == {52, 155, 156, SamplingRate * seconds}
WindowFreqs == {1380, 1400, 2800, 3000, 4000, 4980, 5000, 5580, 5600, 9980, 10000}
WindowMags == {0, 28, 30, 31, 38}
WindowMids == {0, 6, 7, 8}

InitWindow ==
    /\ NoBatch
    /\ NoTrack
    /\ NoMerge
    /\ NoTrace
    /\ NoFilter
    /\ NoAuth
    /\ NoLogin
    /\ NoCycle
    /\ win_interval \in WindowSizes
    /\ \E n \in WindowSamples(win_interval), f \in WindowFreqs, m \in WindowMags,
          d \in WindowMids, c \in {1, 2} :
           win_group = <<[Time |-> 0, n |-> n, sig |-> Tone(f, m, d, f \div c)]>>
    /\ sps_l = <<>>
    /\ sample_l = <<>>
    /\ fft = None
    /\ invoked = {}
    /\ wpc = "loop"

SpecWindow == InitWindow /\ [][NextWindow]_vars

\* ------------------------------------------------------------------------
\* get_step_count_and_distribution (lines 655-709)
\* ------------------------------------------------------------------------
\* a total that leaves the window length out
StepTotal_Unscaled(steps_df, interval_size) ==
    SumSeq([i \in DOMAIN steps_df |-> steps_df[i].sps]) \div 1000

\* line 682: int(steps_df["sps"].sum() * interval_size)
StepTotal(steps_df, interval_size) ==
    (SumSeq([i \in DOMAIN steps_df |-> steps_df[i].sps]) * interval_size) \div 1000

\* Series.between(lo, hi), both ends included; cadences in thousandths
Between(steps_df, lo, hi) ==
    SelectSeq(steps_df, LAMBDA row : lo <= row.sps /\ row.sps <= hi)

\* lines 681-707: the one-row frame built from a step timeline
DistributionOf(steps_df, interval_size) ==
    [rows |-> 1,
     steps |-> StepTotal(steps_df, interval_size),
     walking |-> Len(Between(steps_df, 1000, 1800)) * interval_size,
     walking_fast |-> Len(Between(steps_df, 1810, 2400)) * interval_size,
     jogging |-> Len(Between(steps_df, 2410, 2900)) * interval_size,
     running |-> Len(SelectSeq(steps_df, LAMBDA row : row.sps > 2900)) * interval_size,
     interval_size |-> interval_size]

\* pd.DataFrame()
EmptyDistribution == [rows |-> 0]

\* lines 677-679: calculate_steps is called without interval_size, so the
\* timeline and the interval it returns are those of the default window
DistributionOrEmpty(steps_df) ==
    IF steps_df = <<>> THEN EmptyDistribution
    ELSE DistributionOf(steps_df, DefaultWindow)

GetStepCountAndDistribution ==
    /\ dpc = "call"
    /\ IF ~trace.xyz
       THEN /\ dpc' = "ValueError"
            /\ distribution' = None
       ELSE /\ dpc' = "done"
            /\ distribution' =
                   Some(DistributionOrEmpty(CalculateSteps(trace.df, DefaultWindow)))
    /\ UNCHANGED <<trace, pipeVars, estVars, filterVars, authVars, loginVars, cycleVars>>

NextDistribution == GetStepCountAndDistribution

\* np.fft.fftfreq(N, T)[k] = k x 52 / N, the frequency of bin k of a window
\* of n samples, in thousandths of a Hz
BinFrequency(k, n) == (k * 1000 * SamplingRate) \div n

\* a steady clean tone of frequency f (thousandths of a Hz)
Steady(f) == Tone(f, 38, 0, f)

TraceTones == {Still, Steady(1500), Walk, Steady(2500), Run, Steady(3000)}

\* a trace of k full windows, the odd ones of tone a and the even ones of
\* tone b, starting at midnight
WindowBlocks(k, a, b) ==
    [i \in 1..k |-> [Time |-> (i - 1) * DefaultWindow, n |-> SamplingRate * DefaultWindow,
                     sig |-> IF i % 2 = 1 THEN a ELSE b]]

\* a trace of k full windows of walking and a last window that holds n
\* samples only, of a clean tone in bin number bin of its spectrum
TailSamples == {160, 173}
TailBins == {6, 8, 9}

TailBlocks(k, n, bin) ==
    Append(WindowBlocks(k, Walk, Walk),
           [Time |-> k * DefaultWindow, n |-> n, sig |-> Steady(BinFrequency(bin, n))])

Traces ==
    {[xyz |-> FALSE, df |-> <<>>, interval_size |-> DefaultWindow],
     [xyz |-> TRUE, df |-> <<[Time |-> 0, n |-> 6 * HighpassOrder + 1, sig |-> Walk]>>,
      interval_size |-> DefaultWindow]}
    \cup UNION {{[xyz |-> TRUE, df |-> WindowBlocks(k, a, b),
                   interval_size |-> DefaultWindow] : b \in {a, Still, Run}} :
                     k \in 1..MaxWindows, a \in TraceTones}
    \cup {[xyz |-> TRUE, df |-> WindowBlocks(k, a, a), interval_size |-> 4] :
              k \in 1..2, a \in TraceTones}
    \cup {[xyz |-> TRUE, df |-> TailBlocks(k, n, bin), interval_size |-> DefaultWindow] :
              k \in 0..2, n \in TailSamples, bin \in TailBins}

InitDistribution ==
    /\ NoBatch
    /\ NoTrack
    /\ NoMerge
    /\ NoWindow
    /\ NoFilter
    /\ NoAuth
    /\ NoLogin
    /\ NoCycle
    /\ trace \in Traces
    /\ distribution = None
    /\ dpc = "call"

SpecDistribution == InitDistribution /\ [][NextDistribution]_vars

\* ------------------------------------------------------------------------
\* Filter Bank (filters.py; step_processor.py lines 8-202 hold the same
\* functions).  Frequencies are in tenths of a Hz, length is len(signal).
\* ------------------------------------------------------------------------
\* cutoff >= nyquist, with nyquist = 0.5 * fs
AtOrAboveNyquist(cutoff, fs) == 2 * cutoff >= 10 * fs

\* a margin check that is never taken
AboveMargin_Never(cutoff, fs) == FALSE

\* cutoff > 0.95 * nyquist
AboveMargin(cutoff, fs) == 200 * cutoff > 95 * 10 * fs

ValueError(msg) == [tag |-> "ValueError", msg |-> msg]
Validated == [tag |-> "ok", msg |-> ""]

\* _validate_filter_params: the first check that fails raises
ValidateFilterParams(length, cutoff, fs, order) ==
    IF length < 2 THEN ValueError("Signal too short for filtering")
    ELSE IF length <= 6 * order + 1 THEN ValueError("Signal too short for order")
    ELSE IF fs <= 0 THEN ValueError("Sampling frequency must be positive")
    ELSE IF order < 1 THEN ValueError("Filter order must be >= 1")
    ELSE IF cutoff <= 0 THEN ValueError("Cutoff frequency must be positive")
    ELSE IF AtOrAboveNyquist(cutoff, fs) THEN ValueError("must be less than Nyquist")
    ELSE IF AboveMargin(cutoff, fs) THEN ValueError("too close to Nyquist")
    ELSE Validated

\* the checks of _validate_bandpass_params after the common ones
ValidateHighcut(lowcut, highcut, fs) ==
    IF highcut <= 0 THEN ValueError("High cutoff frequency must be positive")
    ELSE IF lowcut >= highcut THEN ValueError("Low cutoff must be less than high cutoff")
    ELSE IF AtOrAboveNyquist(highcut, fs) THEN ValueError("must be less than Nyquist")
    ELSE IF AboveMargin(highcut, fs) THEN ValueError("too close to Nyquist")
    ELSE Validated

\* _validate_bandpass_params: the common checks on lowcut first
BandpassAfter(common, lowcut, highcut, fs) ==
    IF common.tag = "ok" THEN ValidateHighcut(lowcut, highcut, fs) ELSE common

ValidateBandpassParams(length, lowcut, highcut, fs, order) ==
    BandpassAfter(ValidateFilterParams(length, lowcut, fs, order), lowcut, highcut, fs)

\* after the validation butter and sosfiltfilt give the filtered signal
\* (they accept every order, cutoff and length the validation lets through
\* for the lengths used here)
Filtered(checked) == IF checked.tag = "ok" THEN [tag |-> "filtered", msg |-> ""] ELSE checked

HighpassFilter(length, lowcut, fs, order) ==
    Filtered(ValidateFilterParams(length, lowcut, fs, order))

LowpassFilter(length, highcut, fs, order) ==
    Filtered(ValidateFilterParams(length, highcut, fs, order))

BandpassFilter(length, lowcut, highcut, fs, order) ==
    Filtered(ValidateBandpassParams(length, lowcut, highcut, fs, order))

\* one call of one of the three filters
CallFilter ==
    /\ filter_call # None
    /\ filter_result = None
    /\ filter_result' =
         Some(CASE Val(filter_call).name = "highpass_filter" ->
                     HighpassFilter(Val(filter_call).length, Val(filter_call).lowcut,
                                    Val(filter_call).fs, Val(filter_call).order)
                [] Val(filter_call).name = "lowpass_filter" ->
                     LowpassFilter(Val(filter_call).length, Val(filter_call).highcut,
                                   Val(filter_call).fs, Val(filter_call).order)
                [] Val(filter_call).name = "bandpass_filter" ->
                     BandpassFilter(Val(filter_call).length, Val(filter_call).lowcut,
                                    Val(filter_call).highcut, Val(filter_call).fs,
                                    Val(filter_call).order))
    /\ UNCHANGED <<filter_call, pipeVars, estVars, distVars, authVars, loginVars, cycleVars>>

NextFilter == CallFilter

\* the arguments: lengths below 2, at 6 * order + 1 for order 2, and long;
\* sampling rates of 52 and 100 Hz and two that are not positive; orders on
\* both sides of 1; cutoffs (tenths of a Hz) not positive, in band, and
\* around 0.95 * nyquist (24.7 and 47.5 Hz) and nyquist (26 and 50 Hz)
SignalLengths == {1, 13, 100}
SamplingRates == {-52, 0, 52, 100}
Orders == {-1, 0, 1, 2, 5}
Cutoffs == {-10, 0, 4, 100, 246, 247, 248, 260, 474, 475, 476, 500}

FilterCall(name, length, lowcut, highcut, fs, order) ==
    [name |-> name, length |-> length, lowcut |-> lowcut, highcut |-> highcut,
     fs |-> fs, order |-> order]

FilterCalls ==
    {FilterCall("highpass_filter", l, c, 0, fs, o) :
         l \in SignalLengths, c \in Cutoffs, fs \in SamplingRates, o \in Orders}
    \cup {FilterCall("lowpass_filter", l, 0, c, fs, o) :
         l \in SignalLengths, c \in Cutoffs, fs \in SamplingRates, o \in Orders}
    \cup {FilterCall("bandpass_filter", l, c, d, fs, o) :
         l \in SignalLengths, c \in Cutoffs, d \in Cutoffs, fs \in SamplingRates, o \in Orders}

InitFilter ==
    /\ NoBatch
    /\ NoTrack
    /\ NoMerge
    /\ NoWindow
    /\ NoTrace
    /\ NoAuth
    /\ NoLogin
    /\ NoCycle
    /\ filter_call \in {Some(c) : c \in FilterCalls}
    /\ filter_result = None

SpecFilter == InitFilter /\ [][NextFilter]_vars

\* ------------------------------------------------------------------------
\* Access check (utils/auth.py lines 89-115, utils/database.py lines 63-85)
\* ------------------------------------------------------------------------
\* what a Python call does: it returns a value or raises an exception
Return(value) == [tag |-> "return", value |-> value, exc |-> ""]
Raise(exc) == [tag |-> "raise", value |-> FALSE, exc |-> exc]

\* init_database_manager: the manager is created, or the creation fails and
\* db_manager is None; app.py (line 52) goes on either way
InitDatabaseManager ==
    /\ request = None
    /\ db_manager' \in {None, Some("DatabaseManager")}
    /\ UNCHANGED <<march_participants, request, granted>>
    /\ UNCHANGED <<pipeVars, estVars, distVars, filterVars, loginVars, cycleVars>>

\* get_db_manager
GetDbManager ==
    IF db_manager = None THEN Raise("RuntimeError") ELSE Return(Val(db_manager))

\* manager.execute_query of the SELECT on march_participants, not result.empty;
\* the query raises when the database cannot be reached
ParticipationFound(user_id, march_id, reachable) ==
    IF reachable THEN Return(<<user_id, march_id>> \in march_participants)
    ELSE Raise("SQLAlchemyError")

\* lines 94-112: the role checks, once the manager is there
RoleChecks(user_id, march_id, user_role, reachable) ==
    IF user_role = "admin" THEN Return(TRUE)
    ELSE IF user_role = "supervisor" THEN Return(TRUE)
    ELSE IF user_role = "participant" THEN ParticipationFound(user_id, march_id, reachable)
    ELSE Return(FALSE)

\* the body of the try block (lines 92-112): the manager is fetched first
ViewMarchBody(manager, user_id, march_id, user_role, reachable) ==
    IF manager.tag = "raise" THEN manager
    ELSE RoleChecks(user_id, march_id, user_role, reachable)

\* lines 113-115: except Exception, return False
DenyOnException(r) == IF r.tag = "raise" THEN [Return(FALSE) EXCEPT !.exc = r.exc] ELSE r

UserCanViewMarchOf(user_id, march_id, user_role, reachable) ==
    DenyOnException(ViewMarchBody(GetDbManager, user_id, march_id, user_role, reachable))

\* one call of user_can_view_march
UserCanViewMarch(user_id, march_id, user_role, reachable) ==
    /\ request' = Some([user_id |-> user_id, march_id |-> march_id,
                        user_role |-> user_role, reachable |-> reachable])
    /\ granted' = Some(UserCanViewMarchOf(user_id, march_id, user_role, reachable))
    /\ UNCHANGED <<db_manager, march_participants>>
    /\ UNCHANGED <<pipeVars, estVars, distVars, filterVars, loginVars, cycleVars>>

UserIds == {1, 2}
MarchIds == {123, 999}
UserRoles == {"admin", "supervisor", "participant", "invalid_role"}

NextAuth ==
    \/ InitDatabaseManager
    \/ \E u \in UserIds, m \in MarchIds, r \in UserRoles, reachable \in BOOLEAN :
           UserCanViewMarch(u, m, r, reachable)

\* the module is imported: db_manager is None; the table holds any rows
InitAuth ==
    /\ NoBatch
    /\ NoTrack
    /\ NoMerge
    /\ NoWindow
    /\ NoTrace
    /\ NoFilter
    /\ NoLogin
    /\ NoCycle
    /\ db_manager = None
    /\ march_participants \in SUBSET (UserIds \X MarchIds)
    /\ request = None
    /\ granted = None

SpecAuth == InitAuth /\ [][NextAuth]_vars

\* ------------------------------------------------------------------------
\* Login (utils/auth.py lines 12-64, utils/database.py lines 88-107)
\* ------------------------------------------------------------------------
\* generate_password_hash: a hash is a pair that keeps the password apart
HashPassword(password) == <<"scrypt", password>>

\* verify_password (lines 17-23): check_password_hash, False for a hash
\* that cannot be parsed
VerifyPassword(password, hashed) == hashed = HashPassword(password)

\* a row of table users
UserRow(id, username, password, is_active, last_login) ==
    [id |-> id, username |-> username, password_hash |-> HashPassword(password),
     role |-> "participant", is_active |-> is_active, last_login |-> last_login]

\* get_user_by_username (database.py lines 88-107): None without a manager,
\* None when the query raises, else the first row WHERE username =
\* :username AND is_active = true
GetUserByUsername(username, reachable) ==
    IF db_manager = None THEN Return(None)
    ELSE IF ~reachable THEN Return(None)
    ELSE IF username \notin DOMAIN users_table THEN Return(None)
    ELSE IF users_table[username] = None THEN Return(None)
    ELSE IF ~Val(users_table[username]).is_active THEN Return(None)
    ELSE Return(users_table[username])

\* the lookup as the unit tests patch it (tests/unit/test_auth.py lines
\* 89-98 and 112-119): it returns an inactive user, or raises
PatchedLookup(patch, username) ==
    IF patch = "inactive"
    THEN Return(Some(UserRow(1, username, "secret", FALSE, 0)))
    ELSE Raise("Exception")

\* the call of get_user_by_username in line 29
Lookup(patch, username, reachable) ==
    IF patch = "none" THEN GetUserByUsername(username, reachable)
    ELSE PatchedLookup(patch, username)

\* what a run of the try block did: its outcome and the calls it made, in
\* order
Ran(out, calls) == [out |-> out, calls |-> calls]

\* a body that lets an inactive user through
AuthenticateBody_NoActiveCheck(lookup, password) ==
    IF lookup.tag = "raise" THEN Ran(lookup, <<"get_user_by_username">>)
    ELSE IF lookup.value = None THEN Ran(Return(None), <<"get_user_by_username">>)
    ELSE IF VerifyPassword(password, Val(lookup.value).password_hash)
    THEN Ran(Return(lookup.value),
             <<"get_user_by_username", "verify_password", "update_last_login">>)
    ELSE Ran(Return(None), <<"get_user_by_username", "verify_password">>)

\* the try block of authenticate_user (lines 29-46)
AuthenticateBody(lookup, password) ==
    IF lookup.tag = "raise" THEN Ran(lookup, <<"get_user_by_username">>)
    ELSE IF lookup.value = None THEN Ran(Return(None), <<"get_user_by_username">>)
    ELSE IF ~Val(lookup.value).is_active THEN Ran(Return(None), <<"get_user_by_username">>)
    ELSE IF VerifyPassword(password, Val(lookup.value).password_hash)
    THEN Ran(Return(lookup.value),
             <<"get_user_by_username", "verify_password", "update_last_login">>)
    ELSE Ran(Return(None), <<"get_user_by_username", "verify_password">>)

\* lines 48-50: except Exception, return None
NoneOnException(ran) ==
    IF ran.out.tag = "raise"
    THEN Ran([Return(None) EXCEPT !.exc = ran.out.exc], ran.calls)
    ELSE ran

AuthenticateUserOf(lookup, password) == NoneOnException(AuthenticateBody(lookup, password))

\* update_last_login (lines 53-64): the UPDATE of the row WHERE id =
\* :user_id; without a manager, or when the statement raises, nothing is
\* written and nothing is raised
UpdateLastLogin(user_id, reachable) ==
    IF db_manager = None \/ ~reachable THEN users_table
    ELSE [u \in DOMAIN users_table |->
             IF users_table[u] # None /\ Val(users_table[u]).id = user_id
             THEN Some([Val(users_table[u]) EXCEPT !.last_login = clock + 1])
             ELSE users_table[u]]

\* the table after the call whose try block did ran
TableAfter(ran, reachable) ==
    IF "update_last_login" \in {ran.calls[i] : i \in DOMAIN ran.calls}
    THEN UpdateLastLogin(Val(ran.out.value).id, reachable)
    ELSE users_table

\* one call of authenticate_user
AuthenticateUser(username, password, patch, reachable) ==
    /\ clock < MaxLogins
    /\ login_request' = Some([username |-> username, password |-> password,
                              lookup |-> Lookup(patch, username, reachable),
                              table |-> users_table])
    /\ login_result' = Some(AuthenticateUserOf(Lookup(patch, username, reachable), password))
    /\ users_table' = TableAfter(AuthenticateUserOf(Lookup(patch, username, reachable),
                                                    password), reachable)
    /\ clock' = IF users_table' # users_table THEN clock + 1 ELSE clock
    /\ UNCHANGED <<db_manager, march_participants, request, granted>>
    /\ UNCHANGED <<pipeVars, estVars, distVars, filterVars, cycleVars>>

Usernames == {"alice", "bob"}
Passwords == {"secret", "guess"}
Patches == {"none", "inactive", "raises"}

NextLogin ==
    \/ InitDatabaseManager
    \/ \E u \in Usernames \cup {"carol"}, p \in Passwords, patch \in Patches,
          reachable \in BOOLEAN :
           AuthenticateUser(u, p, patch, reachable)

\* the rows of the table: alice and bob may have no row, an active row or
\* an inactive one; nobody has logged in yet
UserRows(u) ==
    {None, Some(UserRow(IF u = "alice" THEN 1 ELSE 2, u, "secret", TRUE, 0)),
     Some(UserRow(IF u = "alice" THEN 1 ELSE 2, u, "secret", FALSE, 0))}

InitLogin ==
    /\ NoBatch
    /\ NoTrack
    /\ NoMerge
    /\ NoWindow
    /\ NoTrace
    /\ NoFilter
    /\ NoCycle
    /\ db_manager = None
    /\ march_participants = {}
    /\ request = None
    /\ granted = None
    /\ \E a \in UserRows("alice"), b \in UserRows("bob") :
           users_table = [u \in Usernames |-> IF u = "alice" THEN a ELSE b]
    /\ clock = 0
    /\ login_request = None
    /\ login_result = None

SpecLogin == InitLogin /\ [][NextLogin]_vars

\* ------------------------------------------------------------------------
\* Cycle Counter: find_peaks_and_minimas_np of step_processor.py (lines
\* 265-344) and of filters.py (lines 377-415).  Indices are those of the
\* program, counted from 0; magnitudes are whole numbers.
\* ------------------------------------------------------------------------
\* mag[i]
At(mag, i) == mag[i + 1]

\* the numbers of S in increasing order
Ascending(S) ==
    [k \in 1..Cardinality(S) |-> CHOOSE m \in S : Cardinality({x \in S : x < m}) = k - 1]

\* np.argmin(mag[lo:hi]) + lo: the first index of the smallest value
ArgMin(mag, lo, hi) ==
    CHOOSE i \in lo..(hi - 1) :
        \A j \in lo..(hi - 1) : At(mag, i) < At(mag, j) \/ (At(mag, i) = At(mag, j) /\ i <= j)

\* np.argmax(mag[lo:hi]) + lo: the first index of the largest value
ArgMax(mag, lo, hi) ==
    CHOOSE i \in lo..(hi - 1) :
        \A j \in lo..(hi - 1) : At(mag, i) > At(mag, j) \/ (At(mag, i) = At(mag, j) /\ i <= j)

\* len(range(0, n - 10, 5))
NumBlocks(n) == IF n <= 10 THEN 0 ELSE (n - 11) \div 5 + 1

\* line 285: the index of the smallest value of every block of 5 samples
Argmins(mag) == [k \in 1..NumBlocks(Len(mag)) |-> ArgMin(mag, 5 * (k - 1), 5 * (k - 1) + 5)]

\* the values at a list of indices
ValuesAt(mag, indices) == [k \in DOMAIN indices |-> At(mag, indices[k])]

\* -np.array(x)
Negated(x) == [k \in DOMAIN x |-> 0 - x[k]]

\* the last place of the run of equal values that starts at place l
RunEnd(x, l) == CHOOSE r \in l..Len(x) :
                    /\ \A k \in l..r : x[k] = x[l]
                    /\ r = Len(x) \/ x[r + 1] # x[l]

\* the run of equal values from place l to place r is a flat maximum
FlatMaximum(x, l, r) == x[l - 1] < x[l] /\ r < Len(x) /\ x[r + 1] < x[l]

\* scipy.signal.find_peaks: the places of the local maxima of x, a flat
\* maximum counted once at its middle (rounded down); the first and the
\* last place are never one
LocalMaxima(x) ==
    {(run[1] + run[2]) \div 2 :
        run \in {pr \in {<<p, RunEnd(x, p)>> : p \in 2..(Len(x) - 1)} :
                    FlatMaximum(x, pr[1], pr[2])}}

\* a search that forgets the height
FindPeaks_AnyHeight(x, height) == Ascending(LocalMaxima(x))

\* find_peaks(x, height=height): the local maxima of x whose own value is
\* at least height
FindPeaks(x, height) == Ascending({p \in LocalMaxima(x) : x[p] >= height})

\* np.array(values)[places]
Pick(values, places) == [k \in DOMAIN places |-> values[places[k]]]

\* lines 289-292: the block minima that find_peaks keeps on the negated
\* candidate values, as indices into mag
FirstMinima(argmins, argmins_mag) == Pick(argmins, FindPeaks(Negated(argmins_mag), 100))

\* lines 296-301: the largest value between each minimum and the next
PeaksBetween(mag, minima_indices) ==
    [i \in 1..(Len(minima_indices) - 1) |->
        ArgMax(mag, minima_indices[i], minima_indices[i + 1])]

\* lines 305-306: only peaks with magnitudes greater than 100
StrongPeaks(mag, peaks_indices) == SelectSeq(peaks_indices, LAMBDA p : At(mag, p) > 100)

\* lines 309-314: the smallest value between each peak and the next
MinimaBetween(mag, peaks_indices) ==
    [i \in 1..(Len(peaks_indices) - 1) |->
        ArgMin(mag, peaks_indices[i], peaks_indices[i + 1])]

\* a row of array: a minimum and a peak, each with index and magnitude
Pair(mag, minimum, peak) ==
    [min_i |-> minimum, min_m |-> At(mag, minimum), peak_i |-> peak, peak_m |-> At(mag, peak)]

\* lines 323-325: every peak but the last with the minimum that follows it
PeakMinimumPairs(mag, peaks_indices, minima_indices) ==
    [i \in DOMAIN minima_indices |-> Pair(mag, minima_indices[i], peaks_indices[i])]

\* line 318: peaks_magnitudes[:-1] - minima_magnitudes
Drop(row) == row.peak_m - row.min_m

\* a / b > 0.5 in floating point: a / 0 is inf, -inf or nan
AboveHalf(a, b) ==
    IF b > 0 THEN 2 * a > b
    ELSE IF b < 0 THEN 2 * a < b
    ELSE a > 0

\* np.roll(diff_magnitudes, -1): the drop after place i, and after the last
\* place the first drop
Rolled(rows, i) == Drop(rows[(i % Len(rows)) + 1])

\* the rows at the places keep, in order
RowsAt(rows, keep) == Pick(rows, Ascending(keep))

\* lines 318-326: the rows whose drop is more than half the rolled drop
RatioPass(rows) ==
    RowsAt(rows, {i \in DOMAIN rows : AboveHalf(Drop(rows[i]), Rolled(rows, i))})

\* lines 329-330: the minimum lies less than 40 samples after its peak
NearPass(rows) == SelectSeq(rows, LAMBDA row : row.min_i - row.peak_i < 40)

\* the k-th smallest of the peak magnitudes of rows
KthPeak(rows, k) ==
    CHOOSE v \in {rows[i].peak_m : i \in DOMAIN rows} :
        /\ Cardinality({i \in DOMAIN rows : rows[i].peak_m < v}) < k
        /\ Cardinality({i \in DOMAIN rows : rows[i].peak_m <= v}) >= k

\* line 333: twice np.median(array[:, 3]); of no rows the median is nan,
\* and then no row is left to compare with it
TwiceMedian(rows) ==
    IF rows = <<>> THEN 0
    ELSE IF Len(rows) % 2 = 1 THEN 2 * KthPeak(rows, (Len(rows) + 1) \div 2)
    ELSE KthPeak(rows, Len(rows) \div 2) + KthPeak(rows, Len(rows) \div 2 + 1)

\* rows that stay as they are
Shifted_NotAtAll(rows) == rows

\* line 334: every minimum but the last with the peak of the next row
Shifted(rows) ==
    [j \in 1..(Len(rows) - 1) |->
        [min_i |-> rows[j].min_i, min_m |-> rows[j].min_m,
         peak_i |-> rows[j + 1].peak_i, peak_m |-> rows[j + 1].peak_m]]

\* a pass that also keeps a peak of exactly half the median
MedianPass_AtLeast(rows, twice_median) ==
    SelectSeq(rows, LAMBDA row : 4 * row.peak_m >= twice_median)

\* lines 335-336: array[:, 3] > median_value * 0.5
MedianPass(rows, twice_median) ==
    SelectSeq(rows, LAMBDA row : 4 * row.peak_m > twice_median)

\* lines 333-336 on the rows that came through the passes before
FinalPass(rows) == MedianPass(Shifted(rows), TwiceMedian(rows))

\* lines 339-344: the locals of the counter; it returns minima_indices
\* and peaks_indices
CounterLocals(first, between, strong, pairs, ratio, near, final) ==
    [first_minima |-> first, peaks_between |-> between, strong_peaks |-> strong,
     pairs |-> pairs, after_ratio |-> ratio, after_near |-> near,
     twice_median |-> TwiceMedian(near),
     minima_indices |-> [k \in DOMAIN final |-> final[k].min_i],
     peaks_indices |-> [k \in DOMAIN final |-> final[k].peak_i]]

FromNear(first, between, strong, pairs, ratio, near) ==
    CounterLocals(first, between, strong, pairs, ratio, near, FinalPass(near))

FromRatio(first, between, strong, pairs, ratio) ==
    FromNear(first, between, strong, pairs, ratio, NearPass(ratio))

FromStrong(mag, first, between, strong, pairs) ==
    FromRatio(first, between, strong, pairs, RatioPass(pairs))

FromBetween(mag, first, between, strong) ==
    FromStrong(mag, first, between, strong,
               PeakMinimumPairs(mag, strong, MinimaBetween(mag, strong)))

FromFirst(mag, first, between) == FromBetween(mag, first, between, StrongPeaks(mag, between))

FromFirstMinima(mag, first) == FromFirst(mag, first, PeaksBetween(mag, first))

FromArgmins(mag, argmins) == FromFirstMinima(mag, FirstMinima(argmins, ValuesAt(mag, argmins)))

\* step_processor.find_peaks_and_minimas_np
FindPeaksAndMinimasNp(mag) == FromArgmins(mag, Argmins(mag))

\* filters.find_peaks_and_minimas_np (lines 396-415): it returns the
\* minima of line 404 and the peaks of lines 408-413
ExportedOf(first, between) == [minima_indices |-> first, peaks_indices |-> between]

ExportedFromFirst(mag, first) == ExportedOf(first, PeaksBetween(mag, first))

ExportedFromArgmins(mag, argmins) ==
    ExportedFromFirst(mag, FirstMinima(argmins, ValuesAt(mag, argmins)))

FiltersFindPeaksAndMinimasNp(mag) == ExportedFromArgmins(mag, Argmins(mag))

\* one call of the counter of step_processor.py
CallCounter ==
    /\ counted = None
    /\ window # <<>>
    /\ counted' = Some(FindPeaksAndMinimasNp(window))
    /\ UNCHANGED <<window, exported>>
    /\ UNCHANGED <<pipeVars, estVars, distVars, filterVars, authVars, loginVars>>

\* one call of the counter of filters.py
CallExported ==
    /\ exported = None
    /\ window # <<>>
    /\ exported' = Some(FiltersFindPeaksAndMinimasNp(window))
    /\ UNCHANGED <<window, counted>>
    /\ UNCHANGED <<pipeVars, estVars, distVars, filterVars, authVars, loginVars>>

NextCycle == CallCounter \/ CallExported

\* ---- windows ----
\* samples samples at one level
Flat(level, samples) == [i \in 1..samples |-> level]

\* a gait cycle: a trough and the peak after it, five samples each
Cycle(trough, peak) == Flat(trough, 5) \o Flat(peak, 5)

\* the cycle of a steady strong gait
Strong == Cycle(-300, 400)

\* the cycles: strong, weak (a drop of 270 against 700), tall, one whose
\* trough stays above -100, one whose peak is half of a strong one, one
\* that comes after 42 samples at rest (its trough 47 samples after the
\* peak before it, and the blocks of 5 no longer on the cycles), and one
\* whose trough has a ripple of 30 in it
Cycles ==
    {Strong, Cycle(-120, 150), Cycle(-300, 900), Cycle(-50, 400),
     Cycle(-300, 200), Flat(0, 42) \o Strong,
     Flat(-300, 5) \o Flat(-250, 5) \o Flat(-280, 5) \o Flat(-250, 5) \o Strong}

RECURSIVE Joined(_)
Joined(cycles) ==
    IF cycles = <<>> THEN <<>> ELSE cycles[1] \o Joined(SubSeq(cycles, 2, Len(cycles)))

\* a window: five samples at rest, up to MaxCycles cycles of which up to
\* MaxOdd are not the strong one, and rest again; or a few samples only
Windows ==
    {Flat(0, 5) \o Joined(cycles) \o Flat(0, 15) :
        cycles \in {c \in UNION {[1..k -> Cycles] : k \in 0..MaxCycles} :
                       Cardinality({i \in DOMAIN c : c[i] # Strong}) <= MaxOdd}}
    \cup {Flat(-300, n) : n \in {1, 10, 11}}

InitCycle ==
    /\ NoBatch
    /\ NoTrack
    /\ NoMerge
    /\ NoWindow
    /\ NoTrace
    /\ NoFilter
    /\ NoAuth
    /\ NoLogin
    /\ window \in Windows
    /\ counted = None
    /\ exported = None

SpecCycle == InitCycle /\ [][NextCycle]_vars

\* ------------------------------------------------------------------------
\* Claims on the Batch Step Orchestrator
\* ------------------------------------------------------------------------
\* the StepTimeline returned for a participant: time, sps and cumulative
\* steps of every row (empty when the participant has no entry)
Timeline(p) ==
    LET hits == {i \in DOMAIN results : results[i][1].participant_id = p}
    IN  IF hits = {} THEN <<>>
        ELSE LET df == results[CHOOSE i \in hits : TRUE]
             IN  [j \in DOMAIN df |-> [time |-> df[j].time, sps |-> df[j].sps,
                                       cumulative_steps |-> df[j].cumulative_steps]]

\* C1: a recording processed as two files (concatenated, re-sorted, the
\* cumulative sum recomputed) gives the same StepTimeline as the same
\* recording processed as one file, wherever the cut falls.
C1_SplitEqualsWhole ==
    pc = "done" => Timeline("parts") = Timeline("whole")

\* C2: in every returned StepTimeline the rows are in non-decreasing time
\* order and cumulative_steps never decreases from a row to the next, also
\* where one source file ends and the next begins.
C2_CumulativeMonotone ==
    \A i \in DOMAIN results : \A j \in 1..(Len(results[i]) - 1) :
        /\ results[i][j].time <= results[i][j + 1].time
        /\ results[i][j].cumulative_steps <= results[i][j + 1].cumulative_steps

\* a timeline stitched from two files that both counted steps
C2_Witness ==
    /\ pc = "done"
    /\ Len(attempts["p1"]) = 2
    /\ \A i \in 1..2 : attempts["p1"][i].ok
    /\ LET df == Timeline("p1")
       IN  \E j \in 1..(Len(df) - 1) :
               /\ df[j].sps > 0
               /\ \E k \in (j + 1)..Len(df) : df[k].sps > 0 /\ df[k].cumulative_steps > df[j].cumulative_steps

\* the device seconds of a file on the watch clock
ShiftedTimes(f) == {f.blocks[i].Time + ClockShift : i \in DOMAIN f.blocks}

\* the files whose call reached the trimming
ReachedTrim(p) == {i \in DOMAIN attempts[p] : data_dir[p][i].kind = "ok"}

\* C7: each file is trimmed in exactly one mode: by the participant's
\* crossing window when the participant has a crossing entry (then nothing
\* outside the window survives, and the march start is not applied), else
\* by the march start when one is set, else not at all.
C7_TrimPriority ==
    \A p \in DOMAIN data_dir : \A i \in ReachedTrim(p) :
        LET all == ShiftedTimes(data_dir[p][i])
            kept == attempts[p][i].kept
        IN  IF p \in DOMAIN gps_crossing_times
            THEN LET e == gps_crossing_times[p]
                 IN  kept = {t \in all : /\ ("start" \in DOMAIN e => t >= e["start"])
                                         /\ ("end" \in DOMAIN e => t <= e["end"])}
            ELSE IF march_start_time # None
            THEN kept = {t \in all : t >= Val(march_start_time)}
            ELSE kept = all

\* a file of a participant with a crossing entry keeps a sample that the
\* configured march start would have removed, and loses one to the window
C7_Witness ==
    /\ "p1" \in DOMAIN gps_crossing_times
    /\ march_start_time # None
    /\ \E i \in ReachedTrim("p1") :
           /\ \E t \in attempts["p1"][i].kept : t < Val(march_start_time)
           /\ attempts["p1"][i].kept # ShiftedTimes(data_dir["p1"][i])
    /\ \E i \in ReachedTrim("p2") :
           /\ attempts["p2"][i].kept # {}
           /\ attempts["p2"][i].kept # ShiftedTimes(data_dir["p2"][i])

\* C8: the run never aborts; at its end every file of every participant
\* was attempted, a failed file contributes nothing, and the results hold
\* an entry for a participant exactly when one of its files gave a frame.
C8_FailuresAreLocal ==
    /\ pc # "aborted"
    /\ pc = "done" =>
         \A p \in DOMAIN data_dir :
            /\ Len(attempts[p]) = Len(data_dir[p])
            /\ \A i \in DOMAIN attempts[p] :
                   data_dir[p][i].kind # "ok" => ~attempts[p][i].ok
            /\ Cardinality({i \in DOMAIN results : results[i][1].participant_id = p})
                   = IF \E i \in DOMAIN attempts[p] : attempts[p][i].ok THEN 1 ELSE 0
            /\ Len(Timeline(p)) = SumSeq([i \in DOMAIN attempts[p] |-> attempts[p][i].rows])

\* a run in which a participant's first file could not be read and its
\* second still gave the entry, while another participant has no entry
\* because its only file left nothing to filter
C8_Witness ==
    /\ pc = "done"
    /\ Len(data_dir["p1"]) = 2
    /\ data_dir["p1"][1].kind = "unreadable"
    /\ attempts["p1"][2].ok
    /\ Timeline("p1") # <<>>
    /\ data_dir["p2"][1].kind = "ok"
    /\ ~attempts["p2"][1].ok
    /\ Timeline("p2") = <<>>

\* ------------------------------------------------------------------------
\* Claims on the GPS Crossing Locator
\* ------------------------------------------------------------------------
Within(i, target) == HaversineDistance(gps_df[i].latitude, target) <= gps_tolerance_m

\* the points that open a pass: within tolerance, the point before not
PassStarts(target) ==
    {i \in DOMAIN gps_df : Within(i, target) /\ (i = 1 \/ ~Within(i - 1, target))}

\* every point of the track later than the point before it
StrictlyChronological ==
    \A i \in 1..(Len(gps_df) - 1) : gps_df[i].timestamp < gps_df[i + 1].timestamp

\* C4: on a track that passes the common start/end target twice, the start
\* crossing is the time of the first pass and the end crossing the time of
\* the second pass.
C4_EndIsSecondPass ==
    (/\ gpc = "done"
     /\ StrictlyChronological
     /\ start_coords # None /\ end_coords = start_coords
     /\ Cardinality(PassStarts(Val(start_coords))) = 2)
    => LET first == Min(PassStarts(Val(start_coords)))
           second == Max(PassStarts(Val(start_coords)))
       IN  /\ crossing # None
           /\ DOMAIN Val(crossing) = {"start", "end"}
           /\ Val(crossing)["start"] = gps_df[first].timestamp
           /\ Val(crossing)["end"] = gps_df[second].timestamp

\* C5: the start search finds the first point of the track, in track
\* order, within tolerance of the target, and finds nothing exactly when
\* no point of the track is within tolerance.
C5_FirstWithinTolerance ==
    (gpc = "done" /\ start_coords # None) =>
        LET hits == {i \in DOMAIN gps_df : Within(i, Val(start_coords))}
            found == crossing # None /\ "start" \in DOMAIN Val(crossing)
        IN  /\ found <=> hits # {}
            /\ found => Val(crossing)["start"] = gps_df[Min(hits)].timestamp

\* the first point within tolerance, at exactly the tolerance, comes after
\* a point outside it and before a closer one
C5_Witness ==
    /\ gpc = "done" /\ start_coords # None
    /\ crossing # None /\ "start" \in DOMAIN Val(crossing)
    /\ Len(gps_df) >= 3
    /\ ~Within(1, Val(start_coords))
    /\ HaversineDistance(gps_df[2].latitude, Val(start_coords)) = gps_tolerance_m
    /\ gps_df[2].timestamp > gps_df[1].timestamp
    /\ \E i \in 3..Len(gps_df) :
           /\ gps_df[i].latitude = Val(start_coords)
           /\ gps_df[i].timestamp > gps_df[2].timestamp

\* a search that finds nothing on a track with points
C5_WitnessNone ==
    /\ gpc = "done" /\ start_coords # None /\ gps_df # <<>>
    /\ (crossing = None \/ "start" \notin DOMAIN Val(crossing))

\* C6: when both crossings are returned the end is strictly later than the
\* start; the end search skips every point not later than the start found,
\* and looks at the whole track only when no start was found.
C6_EndAfterStart ==
    (gpc = "done" /\ end_coords # None) =>
        LET found_start == crossing # None /\ "start" \in DOMAIN Val(crossing)
            found_end == crossing # None /\ "end" \in DOMAIN Val(crossing)
            eligible == {i \in DOMAIN gps_df :
                            /\ Within(i, Val(end_coords))
                            /\ found_start => gps_df[i].timestamp > Val(crossing)["start"]}
        IN  /\ (found_start /\ found_end) => Val(crossing)["end"] > Val(crossing)["start"]
            /\ found_end <=> eligible # {}
            /\ found_end => Val(crossing)["end"] = gps_df[Min(eligible)].timestamp

\* both crossings found at the same target, a point within tolerance of it
\* carrying the very timestamp of the start crossing
C6_Witness ==
    /\ gpc = "done" /\ end_coords # None /\ end_coords = start_coords
    /\ crossing # None /\ DOMAIN Val(crossing) = {"start", "end"}
    /\ Cardinality({i \in DOMAIN gps_df :
           Within(i, Val(end_coords)) /\ gps_df[i].timestamp = Val(crossing)["start"]}) >= 2

\* ------------------------------------------------------------------------
\* Claims on the Timeline Merger
\* ------------------------------------------------------------------------
\* the rows of the merged frame that come from watch row i
OutRows(i) == {k \in DOMAIN df_merged : df_merged[k].row = df_watch[i].row}

\* the step rows of the participant of watch row i, all and within tolerance
StepRowsOf(i) == {j \in DOMAIN df_steps : df_steps[j].user_id = df_watch[i].user_id}
StepRowsNear(i) ==
    {j \in StepRowsOf(i) :
        /\ df_steps[j].timestamp - df_watch[i].timestamp <= Val(tolerance)
        /\ df_watch[i].timestamp - df_steps[j].timestamp <= Val(tolerance)}

C9_MissingStepInputNoError ==
    (watch_exists /\ ~step_exists) => mpc # "FileNotFoundError"

\* the accelerometer count matched to watch row i in a stride run, where
\* step rows sit on the watch minutes
AccAt(i) ==
    LET hit == {j \in DOMAIN df_steps : df_steps[j].timestamp = df_watch[i].timestamp}
    IN  IF hit = {} THEN None ELSE Some(df_steps[CHOOSE j \in hit : TRUE].cumulative_steps)

\* rows where distance and step count are both present, and their maxima
Known == {i \in DOMAIN df_watch :
             df_watch[i].cumulative_distance_km # None /\ AccAt(i) # None}
MaxKnownM == DistanceM(Max({Val(df_watch[i].cumulative_distance_km) : i \in Known}))
MaxKnownSteps == Max({Val(AccAt(i)) : i \in Known})

\* the stride length MaxKnownM / MaxKnownSteps lies in [0.4, 1.5]
StrideInBand ==
    /\ Known # {}
    /\ MaxKnownSteps > 0
    /\ 4 * MaxKnownSteps <= 10 * MaxKnownM
    /\ 10 * MaxKnownM <= 15 * MaxKnownSteps

\* the steps of watch row i in the merged frame
StepsOut(i) == df_merged[CHOOSE k \in OutRows(i) : TRUE].steps

\* steps of row i as they enter the estimation: the accelerometer count
\* where there is one, else the watch's value
StepsIn(i) == IF AccAt(i) # None THEN Some(Rat(Val(AccAt(i)), 1)) ELSE df_watch[i].steps

\* distance in metres / stride length
Estimated(i) ==
    /\ StepsOut(i) # None
    /\ RatEq(Val(StepsOut(i)),
             Rat(DistanceM(Val(df_watch[i].cumulative_distance_km)) * MaxKnownSteps, MaxKnownM))

\* C10, as stated: every row with a distance and no step count holds the
\* estimate if the stride is in the band; all other rows, and all rows
\* when the stride is outside the band, are unchanged.
C10_StrideBandAnyDistance ==
    mpc = "done" =>
        \A i \in DOMAIN df_watch :
            IF /\ StrideInBand
               /\ df_watch[i].cumulative_distance_km # None
               /\ AccAt(i) = None
            THEN Estimated(i)
            ELSE StepsOut(i) = StepsIn(i)

\* C10, amended: every row with a positive distance and no accelerometer
\* step count holds the estimate if the stride is in the band; all other
\* rows, and all rows when the stride is outside the band, are unchanged.
C10_StrideBandPositiveDistance ==
    mpc = "done" =>
        \A i \in DOMAIN df_watch :
            IF /\ StrideInBand
               /\ df_watch[i].cumulative_distance_km # None
               /\ Val(df_watch[i].cumulative_distance_km) > 0
               /\ AccAt(i) = None
            THEN Estimated(i)
            ELSE StepsOut(i) = StepsIn(i)

\* a finished run whose stride is exactly 1.5 m and which wrote an estimate
\* over a differing value
C10_Witness ==
    /\ mpc = "done"
    /\ StrideInBand
    /\ 10 * MaxKnownM = 15 * MaxKnownSteps
    /\ \E i \in DOMAIN df_watch :
         /\ df_watch[i].cumulative_distance_km # None
         /\ Val(df_watch[i].cumulative_distance_km) > 0
         /\ AccAt(i) = None
         /\ StepsOut(i) # StepsIn(i)

\* a finished run whose only computable stride is 3.0 m, with a row that
\* has a distance and no step count
C10_WitnessSkipped ==
    /\ mpc = "done"
    /\ Known # {}
    /\ MaxKnownSteps > 0
    /\ MaxKnownM = 3 * MaxKnownSteps
    /\ \E i \in DOMAIN df_watch :
         /\ df_watch[i].cumulative_distance_km # None
         /\ Val(df_watch[i].cumulative_distance_km) > 0
         /\ AccAt(i) = None

EstimateApplies(i) ==
    /\ AccAt(i) = None
    /\ df_watch[i].cumulative_distance_km # None
    /\ Val(df_watch[i].cumulative_distance_km) > 0
    /\ StrideInBand

RatLeq(a, b) == a.num * b.den <= b.num * a.den

\* the watch's steps and the accelerometer's cumulative steps never go
\* down in time
WatchStepsNonDecreasing ==
    \A i, j \in DOMAIN df_watch :
        (/\ df_watch[i].user_id = df_watch[j].user_id
         /\ df_watch[i].timestamp < df_watch[j].timestamp
         /\ df_watch[i].steps # None /\ df_watch[j].steps # None)
            => RatLeq(Val(df_watch[i].steps), Val(df_watch[j].steps))

AccStepsNonDecreasing ==
    \A i, j \in DOMAIN df_steps :
        (/\ df_steps[i].user_id = df_steps[j].user_id
         /\ df_steps[i].timestamp < df_steps[j].timestamp)
            => df_steps[i].cumulative_steps <= df_steps[j].cumulative_steps

\* C27: when the watch's step series and the accelerometer's cumulative
\* step series are each non-decreasing, the steps column of the merged
\* timeline of a participant never goes down from a row to a later row.
C27_MergedStepsNonDecreasing ==
    (mpc = "done" /\ WatchStepsNonDecreasing /\ AccStepsNonDecreasing) =>
        \A k, l \in DOMAIN df_merged :
            (/\ df_merged[k].user_id = df_merged[l].user_id
             /\ df_merged[k].timestamp < df_merged[l].timestamp
             /\ df_merged[k].steps # None /\ df_merged[l].steps # None)
                => RatLeq(Val(df_merged[k].steps), Val(df_merged[l].steps))

\* ------------------------------------------------------------------------
\* Claims on the Window Cadence Estimator
\* ------------------------------------------------------------------------
\* the tone of the group handled
WinTone == win_group[1].sig

\* C11: for a group of fewer than 3 x 52 = 156 samples get_steps appends
\* sps 0, whatever the samples are, and calls neither the FFT estimator nor
\* the cycle counter.
C11_ShortWindowIsZero ==
    (wpc = "done" /\ NumSamples(win_group) < 3 * 52) =>
        /\ sps_l = <<0>>
        /\ fft = None
        /\ invoked \cap {"fft_and_processing", "_perform_fft",
                         "_calculate_steps_amplitude_peaks_ptn",
                         "find_peaks_and_minimas_np"} = {}

\* a group of 155 samples of a strong clean 3 Hz tone was handled
C11_Witness ==
    /\ wpc = "done"
    /\ NumSamples(win_group) = 155
    /\ WinTone = Tone(3000, 38, 0, 3000)
    /\ sps_l = <<0>>

\* the locals of the call of fft_and_processing on the group
Locals == Val(fft)

\* the three conditions on the measured values: 1.4 <= f_fft < 10,
\* amplitude > 100 and peak-to-noise < 2 (cadences in thousandths, the others in hundredths)
AllGatesHold ==
    /\ Locals.sps_fft >= 1400 /\ Locals.sps_fft < 10000
    /\ Locals.amplitude_fft.num > 100 * 100 * Locals.amplitude_fft.den
    /\ Locals.ptn_ratio < 200

\* C12: fft_and_processing returns a non-zero cadence only if all three
\* gates hold; when one fails it returns 0 and calls neither the low-pass
\* filter nor the cycle counter.
C12_NonzeroOnlyBehindGates ==
    (wpc = "done" /\ fft # None) =>
        /\ sps_l[1] # 0 => AllGatesHold
        /\ ~AllGatesHold =>
              /\ sps_l[1] = 0
              /\ Locals.peaks = None
              /\ invoked \cap {"lowpass_filter", "find_peaks_and_minimas_np"} = {}

\* a full window in band and above amplitude 100 was rejected for its
\* peak-to-noise ratio alone
C12_Witness ==
    /\ wpc = "done" /\ fft # None
    /\ Locals.sps_fft = 3000
    /\ Locals.amplitude_fft.num > 100 * 100 * Locals.amplitude_fft.den
    /\ Locals.ptn_ratio >= 200
    /\ sps_l = <<0>>
    /\ "lowpass_filter" \notin invoked

\* a window that passed the three gates and came back non-zero
C12_WitnessAccepted ==
    /\ wpc = "done" /\ fft # None
    /\ AllGatesHold
    /\ sps_l[1] # 0
    /\ {"lowpass_filter", "find_peaks_and_minimas_np"} \subseteq invoked

\* the condition of the harmonic correction on the locals, with
\* sps_peaks = (peaks + 1) / T: (|f_fft / 2 - sps_peaks| <= 0.5 and
\* sps_peaks >= 1.4 and f_fft >= 2.8) or f_fft >= 5, times 2 T throughout
PeaksPlusOne == Val(Locals.peaks) + 1

HalvingCondition ==
    \/ /\ Locals.sps_fft * win_interval - 2000 * PeaksPlusOne <= 1000 * win_interval
       /\ 2000 * PeaksPlusOne - Locals.sps_fft * win_interval <= 1000 * win_interval
       /\ 10 * PeaksPlusOne >= 14 * win_interval
       /\ Locals.sps_fft >= 2800
    \/ Locals.sps_fft >= 5000

\* C13: on an accepted window the estimator returns f_fft / 2 exactly when
\* the halving condition holds, and f_fft unchanged otherwise.
C13_HalvedExactlyWhen ==
    (wpc = "done" /\ fft # None /\ AllGatesHold) =>
        /\ Locals.peaks # None
        /\ IF HalvingCondition
           THEN 2 * sps_l[1] = Locals.sps_fft
           ELSE sps_l[1] = Locals.sps_fft

\* an accepted 4 Hz window in which the counter saw half the rate was
\* halved by the agreement of the two estimates
C13_Witness ==
    /\ wpc = "done" /\ fft # None /\ AllGatesHold
    /\ Locals.sps_fft = 4000
    /\ HalvingCondition
    /\ sps_l = <<2000>>

\* an accepted window of at least 2.8 Hz came back unchanged
C13_WitnessUnchanged ==
    /\ wpc = "done" /\ fft # None /\ AllGatesHold
    /\ Locals.sps_fft >= 2800
    /\ ~HalvingCondition
    /\ sps_l = <<Locals.sps_fft>>

\* an accepted window of 5 Hz was halved whatever the counter saw
C13_WitnessFive ==
    /\ wpc = "done" /\ fft # None /\ AllGatesHold
    /\ Locals.sps_fft = 5000
    /\ 10 * PeaksPlusOne < 14 * win_interval
    /\ sps_l = <<2500>>

\* C26: every sps value get_steps emits for a window is 0 or lies in
\* [1.4, 5): never in (0, 1.4), never 5 or more.
C26_EmittedCadenceRange ==
    \A i \in DOMAIN sps_l : sps_l[i] = 0 \/ (sps_l[i] >= 1400 /\ sps_l[i] < 5000)

\* an accepted window just below 10 Hz was emitted just below 5
C26_Witness ==
    /\ wpc = "done" /\ fft # None /\ AllGatesHold
    /\ Locals.sps_fft = 9980
    /\ sps_l = <<4990>>

\* an accepted window of 1.4 Hz was emitted at 1.4, one of 1.38 Hz at 0
C26_WitnessLowest ==
    /\ wpc = "done" /\ fft # None /\ AllGatesHold
    /\ sps_l = <<1400>>

C26_WitnessBelow ==
    /\ wpc = "done" /\ fft # None
    /\ WinTone.f = 1380
    /\ sps_l = <<0>>

\* the group is a full window of a noise-free sinusoid of a frequency in
\* [1.4, 10): nothing but the tone in the spectrum, every cycle in the
\* time domain
CleanSinusoid ==
    /\ NumSamples(win_group) = SamplingRate * win_interval
    /\ WinTone.mid = 0
    /\ WinTone.cyc = WinTone.f
    /\ WinTone.f >= 1400 /\ WinTone.f < 10000

\* the cadence returned is within 0.1 of target1000 / 1000, of half of it
Within01(target1000) == AbsDiff(sps_l[1], target1000) <= 100
Within01OfHalf(target1000) == AbsDiff(2 * sps_l[1], target1000) <= 200

C14_WitnessBelowFive ==
    /\ wpc = "done" /\ CleanSinusoid /\ fft # None
    /\ WinTone.f = 4980
    /\ sps_l = <<4980>>

\* a clean sinusoid of amplitude 103.7 came back as 0
C14_WitnessWeak ==
    /\ wpc = "done" /\ CleanSinusoid /\ fft # None
    /\ WinTone.mag = 28
    /\ sps_l = <<0>>

\* C17: the amplitude compared against 100 is the largest magnitude times
\* 1.63 times 2 divided by the interval length T in seconds, whatever the
\* number of samples of the window.
C17_AmplitudeOverSeconds ==
    (wpc = "done" /\ fft # None /\ Locals.max_mag > 0) =>
        Locals.amplitude_fft.num * win_interval
            = Locals.max_mag * 163 * 2 * Locals.amplitude_fft.den

\* ------------------------------------------------------------------------
\* Claims on the activity distribution
\* ------------------------------------------------------------------------
\* every window of the trace is a full window of 2.0 Hz walking
AllWindowsAtTwo ==
    /\ trace.xyz
    /\ trace.df # <<>>
    /\ \A i \in DOMAIN trace.df :
           /\ trace.df[i].sig = Walk
           /\ trace.df[i].n = SamplingRate * DefaultWindow

Result == Val(distribution)

\* C15, as stated: on a trace whose windows all have sps 2.0 the steps
\* are 2.0 x 8 x the number of windows (1600 for 100 windows) and the time
\* of every window is in the jogging category.
C15_AllJogging ==
    (dpc = "done" /\ AllWindowsAtTwo) =>
        /\ Result.steps = 2 * 8 * Len(trace.df)
        /\ Result.jogging = 8 * Len(trace.df)
        /\ Result.walking = 0 /\ Result.walking_fast = 0 /\ Result.running = 0

\* C15, amended: on a trace whose windows all have sps 2.0 the steps are
\* 2.0 x 8 x the number of windows (1600 for 100 windows) and the time of
\* every window is in the walking_fast category.
C15_AllWalkingFast ==
    (dpc = "done" /\ AllWindowsAtTwo) =>
        /\ Result.steps = 2 * 8 * Len(trace.df)
        /\ Result.walking_fast = 8 * Len(trace.df)
        /\ Result.walking = 0 /\ Result.jogging = 0 /\ Result.running = 0

\* the call returned for a trace of 100 windows at 2.0: 1600 steps
C15_Witness ==
    /\ dpc = "done" /\ AllWindowsAtTwo
    /\ Len(trace.df) = 100
    /\ Result.steps = 1600
    /\ Result.walking_fast = 800

\* a trace whose windows all came back at 2.8 is all jogging
C15_WitnessJogging ==
    /\ dpc = "done" /\ trace.xyz
    /\ Len(trace.df) = 100
    /\ \A i \in DOMAIN trace.df : trace.df[i].sig = Run
    /\ Result.jogging = 800
    /\ Result.steps = 2240

\* the step timeline the call computed (line 677) and its windows whose
\* cadence is at least 1 step per second
TimelineOfTrace == CalculateSteps(trace.df, DefaultWindow)

WindowsAtLeastOne == {i \in DOMAIN TimelineOfTrace : TimelineOfTrace[i].sps >= 1000}

\* C28: every window whose sps is at least 1 is in exactly one of the four
\* categories: the four durations sum to the window size times the number
\* of such windows.
C28_EveryWindowInOneCategory ==
    (dpc = "done" /\ Result.rows = 1) =>
        Result.walking + Result.walking_fast + Result.jogging + Result.running
            = Result.interval_size * Cardinality(WindowsAtLeastOne)

\* ------------------------------------------------------------------------
\* Claims on the Filter Bank
\* ------------------------------------------------------------------------
Call == Val(filter_call)

\* the cutoffs of the call: lowcut of a high-pass, highcut of a low-pass,
\* both of a band-pass
CutoffsOf ==
    CASE Call.name = "highpass_filter" -> {Call.lowcut}
      [] Call.name = "lowpass_filter" -> {Call.highcut}
      [] Call.name = "bandpass_filter" -> {Call.lowcut, Call.highcut}

\* the call failed with the invalid-parameter error and gave no output
Refused == Val(filter_result).tag = "ValueError"

C16_WitnessAtMargin ==
    /\ filter_result # None
    /\ Call = FilterCall("lowpass_filter", 100, 0, 247, 52, 2)
    /\ Val(filter_result).tag = "filtered"

\* a band-pass call was refused for its order alone
C16_WitnessOrder ==
    /\ filter_result # None
    /\ Call = FilterCall("bandpass_filter", 100, 4, 100, 52, 0)
    /\ Val(filter_result) = ValueError("Filter order must be >= 1")

\* ------------------------------------------------------------------------
\* Claims on the windows of get_steps
\* ------------------------------------------------------------------------
\* the start of the window of timeline df that holds second t
WindowStartIn(df, t) ==
    CHOOSE w \in {df[j].time : j \in DOMAIN df} : w <= t /\ t < w + window_size

\* C18: a sample is assigned to its window by its timestamp: removing
\* samples from the stream never changes the window start of a sample that
\* remains, for any configured window size.
C18_GapsKeepWindowStarts ==
    pc = "done" =>
        \A t \in ShiftedTimes(data_dir["gappy"][1]) :
            WindowStartIn(Timeline("gappy"), t) = WindowStartIn(Timeline("full"), t)

\* ------------------------------------------------------------------------
\* Claims on the independence of the participants
\* ------------------------------------------------------------------------
\* the merged rows of participant u, in the order of the merged frame
MergedOf(u) ==
    LET rows == SelectSeq(df_merged, LAMBDA r : r.user_id = u)
    IN  [i \in DOMAIN rows |->
            [timestamp |-> rows[i].timestamp,
             cumulative_distance_km |-> rows[i].cumulative_distance_km,
             steps |-> rows[i].steps,
             steps_per_second |-> rows[i].steps_per_second]]

\* the position of participant p in the results
PlaceOf(p) == CHOOSE i \in DOMAIN results : results[i][1].participant_id = p

C19_WitnessMerged ==
    /\ mpc = "done"
    /\ MergedOf("u2") # <<>>
    /\ \E i \in DOMAIN MergedOf("u3") : MergedOf("u3")[i].steps_per_second # None

\* ------------------------------------------------------------------------
\* Claims on the access check
\* ------------------------------------------------------------------------
Asked == Val(request)
Answer == Val(granted)

\* C20: user_can_view_march returns True for role admin and for role
\* supervisor, for every user and march; for role participant it returns
\* True exactly when the user has a participation record in the march; for
\* every other role it returns False; it never raises.
C20_AccessByRole ==
    granted # None =>
        /\ Answer.tag = "return"
        /\ Answer.value =
             CASE Asked.user_role \in {"admin", "supervisor"} -> TRUE
               [] Asked.user_role = "participant" ->
                     <<Asked.user_id, Asked.march_id>> \in march_participants
               [] OTHER -> FALSE

\* ------------------------------------------------------------------------
\* Claims on the login
\* ------------------------------------------------------------------------
\* the call of authenticate_user made last and what it did
LoginIn == Val(login_request)
LoginOut == Val(login_result)

\* the user the lookup found, when it found one
FoundUser == Val(LoginIn.lookup.value)

\* the lookup found a user, the user is active and the password verifies
Authentic ==
    /\ LoginIn.lookup.tag = "return"
    /\ LoginIn.lookup.value # None
    /\ FoundUser.is_active
    /\ FoundUser.password_hash = HashPassword(LoginIn.password)

\* the places of a call among the calls made
PlacesOf(name) == {i \in DOMAIN LoginOut.calls : LoginOut.calls[i] = name}

\* C21: authenticate_user returns the user record exactly when the user is
\* found, active and the password verifies, and then update_last_login is
\* called once, after the verification; for an unknown user, an inactive
\* user, a wrong password or an exception of the lookup it returns None and
\* leaves the last login alone; it never raises.
C21_AuthenticateUser ==
    login_result # None =>
        /\ LoginOut.out.tag = "return"
        /\ IF Authentic
           THEN /\ LoginOut.out.value = LoginIn.lookup.value
                /\ Cardinality(PlacesOf("update_last_login")) = 1
                /\ \A v \in PlacesOf("verify_password"), u \in PlacesOf("update_last_login") :
                       v < u
                /\ PlacesOf("verify_password") # {}
           ELSE /\ LoginOut.out.value = None
                /\ PlacesOf("update_last_login") = {}
                /\ users_table = LoginIn.table

\* alice logged in with her password and her last login was written
C21_Witness ==
    /\ login_result # None
    /\ Authentic
    /\ LoginIn.username = "alice"
    /\ LoginOut.out.value = LoginIn.table["alice"]
    /\ users_table # LoginIn.table
    /\ Val(users_table["alice"]).last_login > 0

\* a wrong password, an inactive user, an unknown user and a lookup that
\* raised were each turned away
C21_WitnessWrongPassword ==
    /\ login_result # None
    /\ LoginIn.lookup.tag = "return" /\ LoginIn.lookup.value # None
    /\ FoundUser.is_active
    /\ LoginIn.password = "guess"
    /\ LoginOut.out.value = None

C21_WitnessInactive ==
    /\ login_result # None
    /\ LoginIn.lookup.tag = "return" /\ LoginIn.lookup.value # None
    /\ ~FoundUser.is_active
    /\ LoginIn.password = "secret"
    /\ LoginOut.out.value = None

C21_WitnessRaised ==
    /\ login_result # None
    /\ LoginIn.lookup.tag = "raise"
    /\ LoginOut.out.tag = "return"
    /\ LoginOut.out.value = None
    /\ LoginOut.out.exc = "Exception"

\* ------------------------------------------------------------------------
\* Claims on the Cycle Counter
\* ------------------------------------------------------------------------
\* the locals of the call of step_processor's counter
Counted == Val(counted)

\* the rows that came through the passes before the final one
Survivors == Counted.after_near

\* the minima and the peaks of rows, as index arrays
MinimaOf(rows) == [k \in DOMAIN rows |-> rows[k].min_i]
PeaksIn(rows) == [k \in DOMAIN rows |-> rows[k].peak_i]

\* m2 is twice a median of the peak magnitudes of the survivors: at most
\* half of them lie below it and at most half above
TwiceMedianOfSurvivors(m2) ==
    /\ 2 * Cardinality({i \in DOMAIN Survivors : 2 * Survivors[i].peak_m < m2})
           <= Len(Survivors)
    /\ 2 * Cardinality({i \in DOMAIN Survivors : 2 * Survivors[i].peak_m > m2})
           <= Len(Survivors)

KeptBySuccessor ==
    Ascending({j \in 1..(Len(Survivors) - 1) :
                  4 * Survivors[j + 1].peak_m > Counted.twice_median})

DropsOf(rows) == [i \in DOMAIN rows |-> Drop(rows[i])]

\* the ratio pass kept the row at place i of rows
KeptByRatio(rows, i) == \E k \in DOMAIN RatioPass(rows) : RatioPass(rows)[k] = rows[i]

\* rows with other peak magnitude in the first row
WithFirstPeak(rows, peak_m) == [rows EXCEPT ![1].peak_m = peak_m]

\* C24: the ratio pass keeps a pair if and only if its drop is more than
\* half the drop of the next pair in time; a drop is compared only with
\* the drop that follows it, so the verdict on the last pair is the same
\* whatever the drop of the first pair is.
C24_RatioAgainstNextOnly ==
    (counted # None /\ Len(Counted.pairs) >= 2) =>
        /\ \A i \in 1..(Len(Counted.pairs) - 1) :
               (\E k \in DOMAIN Counted.after_ratio :
                     Counted.after_ratio[k] = Counted.pairs[i])
                 <=> 2 * Drop(Counted.pairs[i]) > Drop(Counted.pairs[i + 1])
        /\ \A peak_m \in {150, 200, 400, 900} :
               KeptByRatio(WithFirstPeak(Counted.pairs, peak_m), Len(Counted.pairs))
                 <=> KeptByRatio(Counted.pairs, Len(Counted.pairs))

\* the block minima and their negated values
Candidates == Argmins(window)
NegatedCandidates == Negated(ValuesAt(window, Candidates))

\* the second pass kept the candidate at place k
KeptCandidate(k) ==
    \E j \in DOMAIN Counted.first_minima : Counted.first_minima[j] = Candidates[k]

\* the first place of the stretch that ends at place p of x and holds no
\* value above x[p], and the last place of the stretch that starts at p
LeftEnd(x, p) == CHOOSE l \in 1..p :
                     /\ \A k \in l..p : x[k] <= x[p]
                     /\ l = 1 \/ x[l - 1] > x[p]
RightEnd(x, p) == CHOOSE r \in p..Len(x) :
                      /\ \A k \in p..r : x[k] <= x[p]
                      /\ r = Len(x) \/ x[r + 1] > x[p]

\* the prominence of the maximum at place p of x: its height above the
\* higher of the lowest values of the two stretches
Prominence(x, p) ==
    x[p] - Max({Min({x[k] : k \in LeftEnd(x, p)..p}), Min({x[k] : k \in p..RightEnd(x, p)})})

\* C25, as stated: the second pass keeps a candidate if and only if it is
\* a local minimum of the candidate sequence whose prominence, measured on
\* the negated values, is at least 100.
C25_KeptIffProminent ==
    counted # None =>
        \A k \in DOMAIN Candidates :
            KeptCandidate(k) <=>
                /\ k \in LocalMaxima(NegatedCandidates)
                /\ Prominence(NegatedCandidates, k) >= 100

\* C25, amended: the second pass keeps a candidate if and only if it is a
\* local minimum of the candidate sequence whose own value is at most
\* -100, whatever its prominence.
C25_KeptIffLowEnough ==
    counted # None =>
        \A k \in DOMAIN Candidates :
            KeptCandidate(k) <=>
                /\ k \in LocalMaxima(NegatedCandidates)
                /\ At(window, Candidates[k]) <= -100

\* a trough of -50 between peaks of 400 (prominence 450) was not kept
C25_Witness ==
    /\ counted # None
    /\ \E k \in DOMAIN Candidates :
         /\ k \in LocalMaxima(NegatedCandidates)
         /\ At(window, Candidates[k]) = -50
         /\ Prominence(NegatedCandidates, k) >= 100
         /\ ~KeptCandidate(k)

\* a ripple of 30 in a trough (prominence 30, value -280) was kept
C25_WitnessRipple ==
    /\ counted # None
    /\ \E k \in DOMAIN Candidates :
         /\ At(window, Candidates[k]) = -280
         /\ Prominence(NegatedCandidates, k) = 30
         /\ KeptCandidate(k)

\* a sequence of indices is strictly increasing and inside the window
IncreasingInside(indices) ==
    /\ \A k \in DOMAIN indices : indices[k] >= 0 /\ indices[k] < Len(window)
    /\ \A k \in 1..(Len(indices) - 1) : indices[k] < indices[k + 1]

\* C29: the counter of the step pipeline returns a minima array and a
\* peaks array of equal length, each strictly increasing with every index
\* inside the window, and every minimum lies before the peak at the same
\* position; also when no minimum or no peak survives.
C29_ArraysPairedAndOrdered ==
    counted # None =>
        /\ Len(Counted.minima_indices) = Len(Counted.peaks_indices)
        /\ IncreasingInside(Counted.minima_indices)
        /\ IncreasingInside(Counted.peaks_indices)
        /\ \A k \in DOMAIN Counted.minima_indices :
               Counted.minima_indices[k] < Counted.peaks_indices[k]

\* a window for which the counter returned two minima and two peaks
C29_Witness ==
    /\ counted # None
    /\ Len(Counted.minima_indices) = 2
    /\ Len(Counted.peaks_indices) = 2

\* windows in which no minimum survived the second pass, and in which
\* minima but no peak survived
C29_WitnessNoMinimum ==
    /\ counted # None
    /\ Len(window) > 20
    /\ Counted.first_minima = <<>>
    /\ Counted.peaks_indices = <<>>

C29_WitnessNoPeak ==
    /\ counted # None
    /\ Len(Counted.first_minima) >= 2
    /\ Counted.strong_peaks = <<>>
    /\ Counted.minima_indices = <<>>

\* C30: the counter that the processing package exports returns the same
\* minima and peaks index arrays as the counter that the Window Cadence
\* Estimator calls.
C30_ExportedCounterAgrees ==
    (counted # None /\ exported # None) =>
        /\ Val(exported).minima_indices = Counted.minima_indices
        /\ Val(exported).peaks_indices = Counted.peaks_indices

====
